---------------------------- MODULE Spec2Model ----------------------------
(***************************************************************************)
(* Gateway session runtime of proliferate.                                 *)
(*                                                                         *)
(*  - EventProcessor (apps/gateway/src/hub/event-processor.ts): the        *)
(*    translation of OpenCode SSE events into client broadcasts.           *)
(*  - SessionRuntime.ensureRuntimeReady (session-runtime.ts, described in  *)
(*    the container lifecycle guide): promise-deduplicated provisioning.   *)
(***************************************************************************)
EXTENDS Integers, Sequences, FiniteSets, TLC

NULL == "null"

(***************************************************************************)
(* Text.  Strings that the code inspects (toLowerCase, includes) are       *)
(* sequences of one-character strings so that the inspection is computed.  *)
(***************************************************************************)
UpperChars == <<"A","B","C","D","E","F","G","H","I","J","K","L","M",
                "N","O","P","Q","R","S","T","U","V","W","X","Y","Z">>
LowerChars == <<"a","b","c","d","e","f","g","h","i","j","k","l","m",
                "n","o","p","q","r","s","t","u","v","w","x","y","z">>

toLowerChar(c) ==
    IF \E i \in 1..26 : UpperChars[i] = c
    THEN LowerChars[CHOOSE i \in 1..26 : UpperChars[i] = c]
    ELSE c

toLowerCase(s) == [i \in 1..Len(s) |-> toLowerChar(s[i])]

includes(s, sub) ==
    \E i \in 0..(Len(s) - Len(sub)) : SubSeq(s, i + 1, i + Len(sub)) = sub

txtAbortErrorLc == <<"a","b","o","r","t","e","r","r","o","r">>
txtMessageAbortedErrorLc ==
    <<"m","e","s","s","a","g","e","a","b","o","r","t","e","d","e","r","r","o","r">>
txtOperationWasAborted ==
    <<"o","p","e","r","a","t","i","o","n"," ","w","a","s"," ","a","b","o","r","t","e","d">>
txtSignalIsAborted ==
    <<"s","i","g","n","a","l"," ","i","s"," ","a","b","o","r","t","e","d">>
txtUnknownError == <<"U","n","k","n","o","w","n"," ","e","r","r","o","r">>

(***************************************************************************)
(* Error objects carried by session.error and message.updated.  An error   *)
(* is absent (kind "none"), a string, or an object with name, message and  *)
(* data.message.  A field that is missing or not a string is the empty     *)
(* text: the code treats both alike (a truthiness test in                  *)
(* getOpenCodeErrorMessage, no phrase matches in isAbortLikeOpenCodeError).*)
(***************************************************************************)
Missing == <<>>

ErrObj(n, m, d) == [kind |-> "object", name |-> n, message |-> m, dataMessage |-> d]

NoError == [kind |-> "none", name |-> Missing, message |-> Missing, dataMessage |-> Missing]

ErrAbortName == ErrObj(<<"A","b","o","r","t","E","r","r","o","r">>, Missing, Missing)

ErrMessageAborted ==
    ErrObj(<<"M","e","s","s","a","g","e","A","b","o","r","t","e","d","E","r","r","o","r">>,
           Missing,
           <<"A","b","o","r","t","e","d">>)

ErrOperationAborted ==
    ErrObj(<<"E","r","r","o","r">>,
           Missing,
           <<"T","h","e"," ","o","p","e","r","a","t","i","o","n"," ","w","a","s"," ",
             "a","b","o","r","t","e","d",".">>)

ErrSignalString ==
    [kind |-> "string", name |-> Missing,
     message |-> <<"s","i","g","n","a","l"," ","i","s"," ","a","b","o","r","t","e","d">>,
     dataMessage |-> Missing]

ErrReal ==
    ErrObj(<<"A","P","I","E","r","r","o","r">>, Missing, <<"B","a","d"," ","k","e","y">>)

ErrAborting ==
    ErrObj(<<"A","b","o","r","t","i","n","g","E","r","r","o","r">>, Missing, Missing)

ErrEmptyObject == ErrObj(Missing, Missing, Missing)

ErrorTable ==
    [none |-> NoError, abortName |-> ErrAbortName, messageAborted |-> ErrMessageAborted,
     operationAborted |-> ErrOperationAborted, signalString |-> ErrSignalString,
     real |-> ErrReal, aborting |-> ErrAborting, empty |-> ErrEmptyObject]

ErrorTags == DOMAIN ErrorTable

\* getOpenCodeErrorMessage: the text shown for an error, Missing when there is none.
getOpenCodeErrorMessage(error) ==
    IF error.kind = "none" THEN Missing
    ELSE IF error.kind = "string" THEN error.message
    ELSE IF error.dataMessage # Missing THEN error.dataMessage
    ELSE IF error.message # Missing THEN error.message
    ELSE error.name

\* A slip: only the error's name is looked at, not its messages.
isAbortLike_NameOnly(error) ==
    /\ error.kind = "object"
    /\ toLowerCase(error.name) \in {txtMessageAbortedErrorLc, txtAbortErrorLc}

\* isAbortLikeOpenCodeError: the name, lower-cased, is one of the two abort names, or
\* one of the messages, lower-cased, holds a cancellation phrase.
isAbortLikeOpenCodeError(error) ==
    IF error.kind = "none" THEN FALSE
    ELSE
      LET details == IF error.kind = "string"
                     THEN [name |-> Missing, message |-> error.message,
                           dataMessage |-> Missing]
                     ELSE [name |-> error.name, message |-> error.message,
                           dataMessage |-> error.dataMessage]
          normalizedName == toLowerCase(details.name)
          messages == { toLowerCase(v) : v \in {details.message, details.dataMessage} }
      IN  \/ normalizedName = txtMessageAbortedErrorLc
          \/ normalizedName = txtAbortErrorLc
          \/ \E message \in messages :
                \/ includes(message, txtOperationWasAborted)
                \/ includes(message, txtSignalIsAborted)
                \/ message = txtAbortErrorLc

(***************************************************************************)
(* Identifiers.  u1 is the prompt's own (echoed) user message, a1 and a2   *)
(* are assistant messages; p1 and p2 are tool parts with call ids c1, c2;  *)
(* t1 is a text part.  ses1 is the session the hub talks to, ses2 another. *)
(***************************************************************************)
UserIds == {"u1"}
AssistantIds == {"a1", "a2"}
MsgIds == UserIds \cup AssistantIds
ToolParts == {"p1", "p2"}
CallOf(p) == IF p = "p1" THEN "c1" ELSE "c2"
ToolCalls == {CallOf(p) : p \in ToolParts}
TextPart == "t1"
Role(m) == IF m \in UserIds THEN "user" ELSE "assistant"
getOpenCodeSessionId == "ses1"
OtherSession == "ses2"

toolProgressHeartbeatMs == 15000
\* Date.now() when the processor is constructed: far from 0, as wall-clock time is.
StartTime == 4 * toolProgressHeartbeatMs

VARIABLES
    currentAssistantMessageId,     \* string | null
    currentOpenCodeUserMessageId,  \* string | null
    toolStates,                    \* Map<toolCallId, ToolState>
    runningToolWatch,              \* Map<toolCallId, {startedAt, lastUpdateAt, lastStatusBroadcastAt}>
    sentToolEvents,                \* Set of keys: <<part id, phase>>
    now,                           \* Date.now()
    lastEvent,                     \* the input handled by the last step
    emitted,                       \* what the last step broadcast, in order
    flip,                          \* alternates at every step
    \* Observers of a prompt (history variables; the processor does not read them)
    scen,                          \* progress of: tool running, idle, tool done, idle...
    announced,                     \* message ids broadcast as `message` since the reset
    reannounced,                   \* ... and broadcast as `message` again
    ended,                         \* tool parts broadcast as `tool_end` since the reset
    reended,                       \* ... and broadcast as `tool_end` again
    carried,                       \* message ids carried by broadcasts since the reset
    stale,                         \* message ids carried during the previous prompt
    fresh,                         \* no event since the reset belonged to a stale id
    firstSeen,                     \* first message id handled since the reset
    userTextSeen,                  \* a text part of firstSeen was handled since the reset
    userLeak,                      \* an event of the user message firstSeen was broadcast
    toolSeen,                      \* a tool part was handled since the last completion
    keptUntilReset,                \* id completed text-only: until reset or cancel
    completedIds,                  \* message ids broadcast as message_complete since the reset
    recompleted,                   \* ... and broadcast as message_complete again
    lastBeat,                      \* tool call -> time of its last progress heartbeat
    beats,                         \* tool call -> heartbeats so far (counted up to two)
    earlyBeat                      \* a heartbeat came before the threshold since the last

procVars == <<currentAssistantMessageId, currentOpenCodeUserMessageId, toolStates,
              runningToolWatch, sentToolEvents>>
stepVars == <<lastEvent, emitted, flip>>
turnVars == <<scen, announced, reannounced, ended, reended>>
staleVars == <<carried, stale, fresh, firstSeen, userTextSeen, userLeak>>
slotVars == <<toolSeen, keptUntilReset>>
doneVars == <<completedIds, recompleted>>
beatVars == <<lastBeat, beats, earlyBeat>>
epVars == <<procVars, now, stepVars, turnVars, staleVars, slotVars, doneVars, beatVars>>

(***************************************************************************)
(* SessionRuntime (one per hub).  ensureReadyPromise caches the in-flight  *)
(* provisioning; an attempt is one run of the provisioning sequence.       *)
(***************************************************************************)
VARIABLES
    ensureReadyPromise,            \* the attempt whose promise is cached, or null
    attempts,                      \* attempt -> its position in the sequence
    callers,                       \* caller -> what it is doing and the promise it holds
    providerCalls                  \* attempt -> provider.ensureSandbox calls it made

rtVars == <<ensureReadyPromise, attempts, callers, providerCalls>>

(***************************************************************************)
(* Expiry migration (MigrationController) of one session, seen from the    *)
(* Gateway processes that may hold a hub for it.                           *)
(***************************************************************************)
VARIABLES
    clock,                         \* time in ms
    lock,                          \* the Redis migration lock: holder and expiry time
    pc,                            \* gateway -> position of its expiry migration
    cold,                          \* gateway -> position of its client-triggered start
    clients,                       \* clients connected to the session
    supportsPause,                 \* provider.supportsPause
    row,                           \* the session row: status, sandboxId, snapshotId
    sandboxes,                     \* sandbox id -> its state and the snapshot it is from
    snapshots,                     \* snapshots taken so far (the newest snapshot id)
    runtime,                       \* gateway -> SessionRuntime: sandbox id, SSE connected
    seen,                          \* statuses broadcast to the clients, in order
    took,                          \* gateway -> snapshot its migration took (or none)
    before                         \* gateway -> what its migration found when it began

migVars == <<clock, lock, pc, cold, clients, supportsPause, row, sandboxes, snapshots,
             runtime, seen, took, before>>

\* VPSProvider and its Docker host
VARIABLES
    containers,                    \* container number -> state and name on the host
    made,                          \* containers created so far
    current,                       \* session -> sandboxId its caller holds
    last,                          \* the last ensureSandbox call and its outcome
    volumes,                       \* session -> what its workspace directory holds
    images                         \* the snapshot images on the host

vpsVars == <<containers, made, current, last, volumes, images>>

\* SessionHub's SSE reconnection
VARIABLES
    wsClients,                     \* connected WebSocket clients
    automation,                    \* clientType = "automation"
    sse,                           \* connected | waiting | down
    reconnectAttempt,              \* delays of the sequence used so far
    sinceFailure,                  \* ms since the last failure
    failures,                      \* consecutive failures of the stream
    attemptedAfter,                \* the waits before the reconnects of this run
    hubStatus                      \* status broadcast to clients

hubVars == <<wsClients, automation, sse, reconnectAttempt, sinceFailure, failures,
             attemptedAfter, hubStatus>>

\* GitOperations over one workspace of the sandbox
VARIABLES
    gitIdentity,                   \* GitOperations.gitIdentity
    pushToken,                     \* whether the configured repo carries a token
    tracked,                       \* files git knows
    worktree,                      \* files changed and not staged
    index,                         \* files staged
    head,                          \* commits on the local branch
    remote,                        \* commits on the remote branch
    upstream,                      \* whether the branch has an upstream
    pullRequests,                  \* pull requests opened for the branch
    execLog,                       \* commands the last operation ran, with their env
    gitResult,                     \* code of the last GitActionResult
    effects,                       \* per routed command, what its runs produced
    ran                            \* the routed command that ran last

gitVars == <<gitIdentity, pushToken, tracked, worktree, index, head, remote, upstream,
             pullRequests, execLog, gitResult, effects, ran>>

\* Automation runs and their manual resolution
VARIABLES
    runs,                          \* the rows of automation_runs
    runEvents,                     \* the audit events, newest last
    outbox,                        \* the notifications enqueued
    resolved                       \* the last resolveRun call and what it did

runVars == <<runs, runEvents, outbox, resolved>>

\* Action invocations (actions framework)
VARIABLES
    invocations,                   \* the rows of action_invocations, by id
    trail,                         \* the statuses each invocation went through
    executed,                      \* adapter.execute calls per invocation
    actNow,                        \* the clock of the actions service
    sinceSweep                     \* ms since the sweeper ran

actVars == <<invocations, trail, executed, actNow, sinceSweep>>

\* The session-expiry queue
VARIABLES
    queue,                         \* the delayed jobs pending
    scheduled,                     \* per session, how many jobs were scheduled
    removed,                       \* the jobs taken out before they fired
    fired,                         \* the jobs that fired, oldest first
    liveBox,                           \* per session, its live sandbox (0: none)
    pausedBox,                     \* per session, its paused sandbox (0: none)
    boxes,                         \* sandboxes created so far
    jobNow,                        \* the clock of the queue
    readied                        \* the last ensureRuntimeReady(): result and job

jobVars == <<queue, scheduled, removed, fired, liveBox, pausedBox, boxes, jobNow,
             readied>>

\* SseClient: the transport of the agent's event stream
VARIABLES
    connection,                    \* connected | disconnected
    connects,                      \* connect() onDisconnectCalls of the owner so far
    sinceFrame,                    \* ms since the last frame of the stream
    delivered,                     \* triggers delivered since the last connect()
    onDisconnectCalls,                         \* onDisconnect onDisconnectCalls since the last connect()
    stoppedBy                      \* what stopped the client first: a trigger or disconnect()

sseVars == <<connection, connects, sinceFrame, delivered, onDisconnectCalls, stoppedBy>>

\* The side-effect records of automation runs
VARIABLES
    sideEffects,                   \* the rows of automation_side_effects
    fxCalls                        \* caller -> its recordOrReplaySideEffect call

fxVars == <<sideEffects, fxCalls>>

\* The billing outbox
VARIABLES
    billingEvents,                 \* event id -> status, retryCount, lastError
    exhausted,                     \* the organization is marked billing-exhausted
    attempt                        \* the last processEvent: answers, steps, result

billVars == <<billingEvents, exhausted, attempt>>

svcVars == <<fxVars, billVars>>

extVars == <<gitVars, runVars, actVars, jobVars, sseVars, svcVars>>

envVars == <<migVars, vpsVars, hubVars, extVars>>

vars == <<epVars, rtVars, envVars>>

\* Callers (client connects, reconnects) and provisioning attempts of one run.
MaxCallers == 3
MaxAttempts == 3

\* Cap of the observers' counters: 0, 1, "2 or more".
MaxCount == 2

\* Expiry migrations (snapshots) and sandboxes of one run, and its length in ticks.
MaxSnapshots == 2
MaxSandboxes == 3
MaxTicks == 3

\* Length of one run of the heartbeat clock, in steps of a third of the threshold.
MaxBeatTicks == 7

\* Containers one run starts on the host.
MaxContainers == 3
MaxEdits == 1

(***************************************************************************)
(* Inputs: well-formed OpenCode events (OpenCodeEvent), one record shape.  *)
(***************************************************************************)
Ev(type) ==
    [type |-> type, msg |-> NULL, role |-> NULL, session |-> NULL, err |-> "none",
     completed |-> FALSE, part |-> NULL, call |-> NULL, status |-> NULL,
     hasArgs |-> FALSE, summary |-> NULL, delta |-> FALSE, text |-> FALSE,
     idle |-> FALSE]

MessageUpdated(m, ses, err, completed) ==
    [Ev("message.updated") EXCEPT !.msg = m, !.role = Role(m), !.session = ses,
                                  !.err = err, !.completed = completed]

TextPartUpdated(m, ses, delta, text) ==
    [Ev("message.part.updated") EXCEPT !.msg = m, !.session = ses, !.part = TextPart,
                                       !.delta = delta, !.text = text]

ToolPartUpdated(m, ses, p, status, hasArgs, summary) ==
    [Ev("message.part.updated") EXCEPT !.msg = m, !.session = ses, !.part = p,
                                       !.call = CallOf(p), !.status = status,
                                       !.hasArgs = hasArgs, !.summary = summary]

\* A part that is neither text nor a tool call (a file, a step marker).
OtherPartUpdated(m, ses) ==
    [Ev("message.part.updated") EXCEPT !.msg = m, !.session = ses, !.part = "o1"]

SessionIdle == Ev("session.idle")
SessionStatus(idle) == [Ev("session.status") EXCEPT !.idle = idle]
SessionError(err) == [Ev("session.error") EXCEPT !.err = err]
ServerHeartbeat == Ev("server.heartbeat")

IsTextPart(e) == e.type = "message.part.updated" /\ e.part = TextPart
IsToolPart(e) == e.type = "message.part.updated" /\ e.call # NULL

\* Tool parts: p1 belongs to a1 and p2 to a2.
MsgOfPart(p) == IF p = "p1" THEN "a1" ELSE "a2"
Tool(p, status, hasArgs) ==
    ToolPartUpdated(MsgOfPart(p), getOpenCodeSessionId, p, status, hasArgs, NULL)
Text(m, delta) == TextPartUpdated(m, getOpenCodeSessionId, delta, ~delta)
Msg(m, completed) == MessageUpdated(m, getOpenCodeSessionId, "none", completed)

\* message.updated of the user message and of each assistant message, before and at
\* its completion.
PlainMessageEvents ==
    { Msg(m, FALSE) : m \in UserIds } \cup { Msg(m, c) : m \in AssistantIds, c \in BOOLEAN }

IdleEvents == {SessionIdle, SessionStatus(TRUE), SessionStatus(FALSE)}

\* The inputs of SpecEP: tool parts in every shape the handler tells apart (p1 running
\* and completed, with and without input, with a task summary, of another session;
\* p2, the second tool, running, completed and failed), around plain messages and text.
ToolFocusEvents ==
    PlainMessageEvents \cup IdleEvents
    \cup { Text("u1", TRUE), Text("a1", TRUE), Text("a1", FALSE), ServerHeartbeat }
    \cup { Tool("p1", st, a) : st \in {"running", "completed"}, a \in BOOLEAN }
    \cup { Tool("p2", st, TRUE) : st \in {"running", "completed", "error"} }
    \cup { ToolPartUpdated("a1", getOpenCodeSessionId, "p1", "running", TRUE, "s1"),
           ToolPartUpdated("a1", OtherSession, "p1", "completed", TRUE, NULL),
           OtherPartUpdated("a1", getOpenCodeSessionId) }

\* The inputs of SpecErr: every error of ErrorTable by session.error; on message.updated
\* no error, a real error (before and at completion), an abort error and an error object
\* without text (at completion), one update without session id and one of another
\* session; a tool call and a text part to move the processor.
ErrorFocusEvents ==
    PlainMessageEvents
    \cup { SessionError(err) : err \in ErrorTags }
    \cup { MessageUpdated(m, getOpenCodeSessionId, "real", c) :
             m \in AssistantIds, c \in BOOLEAN }
    \cup { MessageUpdated(m, getOpenCodeSessionId, err, TRUE) :
             m \in AssistantIds, err \in {"messageAborted", "empty"} }
    \cup { MessageUpdated("a1", NULL, "real", FALSE),
           MessageUpdated("a1", OtherSession, "real", TRUE),
           SessionIdle, Text("a1", TRUE), Tool("p1", "running", TRUE),
           Tool("p1", "completed", TRUE) }

\* The inputs of SpecTurn and SpecStale: the events of ordinary turns, text-only and
\* with one or two tool calls.
TurnEvents ==
    PlainMessageEvents \cup IdleEvents
    \cup { Text(m, TRUE) : m \in MsgIds }
    \cup { Text("a1", FALSE), Text("u1", FALSE) }
    \cup { Tool(p, st, TRUE) : p \in ToolParts, st \in {"running", "completed"} }
    \cup { Tool("p2", "error", TRUE) }

(***************************************************************************)
(* Broadcasts (ServerMessage), one record shape.                           *)
(***************************************************************************)
Bc(type, messageId, partId, text) ==
    [type |-> type, messageId |-> messageId, partId |-> partId, text |-> text]

(***************************************************************************)
(* The processor's fields as one record, threaded through the handlers;    *)
(* out collects the broadcasts of the call in progress.                    *)
(***************************************************************************)
Fields ==
    [cur |-> currentAssistantMessageId, user |-> currentOpenCodeUserMessageId,
     tools |-> toolStates, watch |-> runningToolWatch, sent |-> sentToolEvents,
     out |-> <<>>]

broadcast(st, msg) == [st EXCEPT !.out = Append(@, msg)]

Without(f, k) == [x \in DOMAIN f \ {k} |-> f[x]]
With(f, k, v) == (k :> v) @@ f

(***************************************************************************)
(* EventProcessor                                                          *)
(***************************************************************************)

\* hasRunningTools
hasRunningTools(st) == \E c \in DOMAIN st.tools : st.tools[c].status = "running"

\* A slip: the message is completed although a tool is still running.
completeCurrentMessage_IgnoresTools(st) ==
    IF st.cur = NULL THEN st
    ELSE LET hadTools == DOMAIN st.tools # {}
             s1 == broadcast(st, Bc("message_complete", st.cur, NULL, NULL))
         IN  [s1 EXCEPT !.cur = IF hadTools THEN NULL ELSE @,
                        !.tools = <<>>, !.watch = <<>>, !.sent = {}]

\* completeCurrentMessage
completeCurrentMessage(st) ==
    IF st.cur = NULL THEN st
    ELSE IF hasRunningTools(st) THEN st
    ELSE LET hadTools == DOMAIN st.tools # {}
             s1 == broadcast(st, Bc("message_complete", st.cur, NULL, NULL))
         IN  [s1 EXCEPT !.cur = IF hadTools THEN NULL ELSE @,
                        !.tools = <<>>, !.watch = <<>>, !.sent = {}]

\* The assistant message is created with OpenCode's id when the slot is empty
\* (the same block in handleMessageUpdate, handleTextPart and handleToolPart).
createAssistantMessage(st, messageId) ==
    IF st.cur = NULL
    THEN broadcast([st EXCEPT !.cur = messageId], Bc("message", messageId, NULL, NULL))
    ELSE st

\* handleMessageUpdate, the error attached to the current assistant message
messageUpdateError(st, e) ==
    LET error == ErrorTable[e.err]
        errorMessage == getOpenCodeErrorMessage(error)
    IN  IF errorMessage # Missing /\ ~isAbortLikeOpenCodeError(error)
        THEN broadcast(st, Bc("error", NULL, NULL, errorMessage))
        ELSE st

\* handleMessageUpdate
handleMessageUpdate(st, e) ==
    IF getOpenCodeSessionId # NULL /\ e.session # NULL /\ e.session # getOpenCodeSessionId
    THEN st
    ELSE IF e.role = "user"
    THEN [st EXCEPT !.user = IF @ = NULL THEN e.msg ELSE @]
    ELSE IF e.role # "assistant" THEN st
    ELSE LET s1 == createAssistantMessage(st, e.msg)
         IN  IF s1.cur # e.msg THEN s1
             ELSE LET s2 == messageUpdateError(s1, e)
                  IN  IF e.completed THEN completeCurrentMessage(s2) ELSE s2

\* A slip: the parts of the user message are not skipped.
handleTextPart_NoSkip(st, e) ==
    LET s1 == IF st.user = NULL THEN [st EXCEPT !.user = e.msg] ELSE st
        s2 == createAssistantMessage(s1, e.msg)
    IN  IF e.delta
        THEN broadcast(s2, Bc("token", s2.cur, e.part, NULL))
        ELSE IF e.text
        THEN broadcast(s2, Bc("text_part_complete", s2.cur, e.part, NULL))
        ELSE s2

\* handleTextPart
handleTextPart(st, e) ==
    LET s1 == IF st.user = NULL THEN [st EXCEPT !.user = e.msg] ELSE st
    IN  IF e.msg = s1.user THEN s1
        ELSE LET s2 == createAssistantMessage(s1, e.msg)
             IN  IF e.delta
                 THEN broadcast(s2, Bc("token", s2.cur, e.part, NULL))
                 ELSE IF e.text
                 THEN broadcast(s2, Bc("text_part_complete", s2.cur, e.part, NULL))
                 ELSE s2

\* A slip: the start key is not recorded, so every sighting is a first sighting.
toolStart_NoKey(st, e, t) ==
    LET s2 == broadcast(st, Bc("tool_start", st.cur, e.part,
                               IF e.hasArgs THEN "args" ELSE "noargs"))
    IN  [s2 EXCEPT
           !.tools = With(@, e.call,
                          [startEmitted |-> TRUE, argsEmitted |-> e.hasArgs,
                           endEmitted |-> FALSE, status |-> "running"]),
           !.watch = With(@, e.call,
                          [startedAt |-> t, lastUpdateAt |-> t,
                           lastStatusBroadcastAt |-> 0])]

\* handleToolPart, "Emit tool_start on first sighting" and the args update
toolStart(st, e, t) ==
    LET startKey == <<e.part, "start">>
        argsKey == <<e.part, "args">>
    IN  IF startKey \notin st.sent
        THEN LET s1 == [st EXCEPT !.sent = @ \cup {startKey}
                                            \cup (IF e.hasArgs THEN {argsKey} ELSE {})]
                 s2 == broadcast(s1, Bc("tool_start", s1.cur, e.part,
                                        IF e.hasArgs THEN "args" ELSE "noargs"))
             IN  [s2 EXCEPT
                    !.tools = With(@, e.call,
                                   [startEmitted |-> TRUE, argsEmitted |-> e.hasArgs,
                                    endEmitted |-> FALSE, status |-> "running"]),
                    !.watch = With(@, e.call,
                                   [startedAt |-> t, lastUpdateAt |-> t,
                                    lastStatusBroadcastAt |-> 0])]
        ELSE IF e.hasArgs /\ argsKey \notin st.sent
        THEN LET s1 == [st EXCEPT !.sent = @ \cup {argsKey}]
                 s2 == broadcast(s1, Bc("tool_start", s1.cur, e.part, "args"))
             IN  IF e.call \in DOMAIN s2.watch
                 THEN [s2 EXCEPT !.watch[e.call].lastUpdateAt = t]
                 ELSE s2
        ELSE st

\* handleToolPart, "Handle metadata": one tool_metadata per summary signature
toolMetadata(st, e, t) ==
    IF e.summary = NULL THEN st
    ELSE LET summaryKey == <<e.part, "summary", e.summary>>
         IN  IF summaryKey \notin st.sent
             THEN LET s1 == [st EXCEPT !.sent = @ \cup {summaryKey}]
                      s2 == broadcast(s1, Bc("tool_metadata", NULL, e.part, e.summary))
                  IN  IF e.call \in DOMAIN s2.watch
                      THEN [s2 EXCEPT !.watch[e.call].lastUpdateAt = t]
                      ELSE s2
             ELSE st

\* A slip: tool_end is broadcast but the tool's state stays "running".
toolCompletion_KeepsRunning(st, e) ==
    LET endKey == <<e.part, "end">>
    IN  IF e.status \in {"completed", "error"} /\ endKey \notin st.sent
        THEN LET s1 == [st EXCEPT !.sent = @ \cup {endKey}]
                 s2 == broadcast(s1, Bc("tool_end", NULL, e.part, e.status))
             IN  [s2 EXCEPT !.watch = Without(@, e.call)]
        ELSE st

\* handleToolPart, "Handle completion"
toolCompletion(st, e) ==
    LET endKey == <<e.part, "end">>
    IN  IF e.status \in {"completed", "error"} /\ endKey \notin st.sent
        THEN LET s1 == [st EXCEPT !.sent = @ \cup {endKey}]
                 s2 == broadcast(s1, Bc("tool_end", NULL, e.part, e.status))
                 s3 == IF e.call \in DOMAIN s2.tools
                       THEN [s2 EXCEPT !.tools[e.call].status = e.status,
                                       !.tools[e.call].endEmitted = TRUE]
                       ELSE s2
             IN  [s3 EXCEPT !.watch = Without(@, e.call)]
        ELSE st

\* handleToolPart
handleToolPart(st, e, t) ==
    toolCompletion(toolMetadata(toolStart(createAssistantMessage(st, e.msg), e, t), e, t), e)

\* handlePartUpdate
handlePartUpdate(st, e, t) ==
    IF getOpenCodeSessionId # NULL /\ e.session # getOpenCodeSessionId THEN st
    ELSE IF IsTextPart(e) THEN handleTextPart(st, e)
    ELSE IF IsToolPart(e) THEN handleToolPart(st, e, t)
    ELSE st

\* handleSessionIdle
handleSessionIdle(st) == completeCurrentMessage(st)

\* handleSessionStatus
handleSessionStatus(st, e) == IF e.idle THEN completeCurrentMessage(st) ELSE st

\* handleSessionError
handleSessionError(st, e) ==
    LET error == ErrorTable[e.err]
    IN  IF isAbortLikeOpenCodeError(error) THEN st
        ELSE LET errorMessage ==
                     IF error.kind = "object" /\ error.dataMessage # Missing
                     THEN error.dataMessage
                     ELSE IF error.kind = "object" /\ error.name # Missing
                     THEN error.name
                     ELSE txtUnknownError
             IN  broadcast(st, Bc("error", NULL, NULL, errorMessage))

\* A slip: the time since the last heartbeat is not looked at.
RECURSIVE heartbeatOver_NoWindow(_, _, _)
heartbeatOver_NoWindow(st, calls, t) ==
    IF calls = {} THEN st
    ELSE LET c == CHOOSE x \in calls : TRUE
             watch == st.watch[c]
             due == t - watch.lastUpdateAt >= toolProgressHeartbeatMs
             s1 == IF due
                   THEN [broadcast(st, Bc("status", NULL, c, "running"))
                           EXCEPT !.watch[c].lastStatusBroadcastAt = t]
                   ELSE st
         IN  heartbeatOver_NoWindow(s1, calls \ {c}, t)

\* maybeBroadcastToolProgressHeartbeat: one status per watched tool that has been
\* quiet for the threshold and had no heartbeat within the threshold.
RECURSIVE heartbeatOver(_, _, _)
heartbeatOver(st, calls, t) ==
    IF calls = {} THEN st
    ELSE LET c == CHOOSE x \in calls : TRUE
             watch == st.watch[c]
             due == /\ t - watch.lastUpdateAt >= toolProgressHeartbeatMs
                    /\ t - watch.lastStatusBroadcastAt >= toolProgressHeartbeatMs
             s1 == IF due
                   THEN [broadcast(st, Bc("status", NULL, c, "running"))
                           EXCEPT !.watch[c].lastStatusBroadcastAt = t]
                   ELSE st
         IN  heartbeatOver(s1, calls \ {c}, t)

maybeBroadcastToolProgressHeartbeat(st, t) == heartbeatOver(st, DOMAIN st.watch, t)

\* process
process(st, e, t) ==
    LET s1 == maybeBroadcastToolProgressHeartbeat(st, t)
    IN  CASE e.type = "message.updated" -> handleMessageUpdate(s1, e)
          [] e.type = "message.part.updated" -> handlePartUpdate(s1, e, t)
          [] e.type = "session.idle" -> handleSessionIdle(s1)
          [] e.type = "session.status" -> handleSessionStatus(s1, e)
          [] e.type = "session.error" -> handleSessionError(s1, e)
          [] OTHER -> s1

\* A slip: the assistant message slot survives the reset.
resetForNewPrompt_KeepsSlot(st) ==
    [st EXCEPT !.user = NULL, !.tools = <<>>, !.watch = <<>>, !.sent = {}]

\* resetForNewPrompt
resetForNewPrompt(st) ==
    [st EXCEPT !.cur = NULL, !.user = NULL, !.tools = <<>>, !.watch = <<>>, !.sent = {}]

\* clearCurrentAssistantMessageId
clearCurrentAssistantMessageId(st) ==
    [st EXCEPT !.cur = NULL, !.tools = <<>>, !.watch = <<>>, !.sent = {}]

Store(st) ==
    /\ currentAssistantMessageId' = st.cur
    /\ currentOpenCodeUserMessageId' = st.user
    /\ toolStates' = st.tools
    /\ runningToolWatch' = st.watch
    /\ sentToolEvents' = st.sent

(***************************************************************************)
(* Observers.                                                              *)
(***************************************************************************)
Count(out, type) == Cardinality({ i \in 1..Len(out) : out[i].type = type })
Sat(n) == IF n > MaxCount THEN MaxCount ELSE n
IsIdleEvent(e) == e.type = "session.idle" \/ (e.type = "session.status" /\ e.idle)
Dropped(e) ==
    \/ e.type = "message.updated" /\ e.session # NULL /\ e.session # getOpenCodeSessionId
    \/ e.type = "message.part.updated" /\ e.session # getOpenCodeSessionId
\* The message an event is handled for: message.updated, and text and tool parts.
Handled(e) ==
    IF ~Dropped(e) /\ (e.type = "message.updated" \/ IsTextPart(e) \/ IsToolPart(e))
    THEN e.msg ELSE NULL
NoScen == [phase |-> "none", part |-> NULL, n |-> 0, idles |-> 0]

\* The scenario "a tool call is running, idle arrives, the tool completes, idle arrives
\* again (and again)", with n the message_complete broadcasts since it began.
ScenAfter(e, r) ==
    LET k == Count(r.out, "message_complete")
        running == { c \in DOMAIN r.tools : r.tools[c].status = "running" }
    IN  IF IsToolPart(e) /\ ~Dropped(e) /\ e.status = "running" /\ running = {e.call}
        THEN [phase |-> "started", part |-> e.part, n |-> Sat(k), idles |-> 0]
        ELSE IF scen.phase = "started" /\ IsIdleEvent(e)
        THEN [scen EXCEPT !.phase = "earlyIdle", !.n = Sat(@ + k)]
        ELSE IF scen.phase = "earlyIdle" /\ IsToolPart(e) /\ ~Dropped(e)
                /\ e.part = scen.part /\ e.status \in {"completed", "error"}
        THEN [scen EXCEPT !.phase = "toolDone", !.n = Sat(@ + k)]
        ELSE IF scen.phase \in {"toolDone", "after"} /\ IsIdleEvent(e)
        THEN [scen EXCEPT !.phase = "after", !.n = Sat(@ + k), !.idles = Sat(@ + 1)]
        ELSE NoScen

Ids(out, type) == { out[i].messageId : i \in { j \in 1..Len(out) : out[j].type = type } }
Parts(out, type) == { out[i].partId : i \in { j \in 1..Len(out) : out[j].type = type } }
Twice(out, type, field) ==
    { out[i][field] : i \in { j \in 1..Len(out) :
        /\ out[j].type = type
        /\ \E k \in 1..(j - 1) : out[k].type = type /\ out[k][field] = out[j][field] } }

ObserveTurn(e, r) ==
    /\ scen' = ScenAfter(e, r)
    /\ announced' = announced \cup Ids(r.out, "message")
    /\ reannounced' = reannounced \cup (announced \cap Ids(r.out, "message"))
                                  \cup Twice(r.out, "message", "messageId")
    /\ ended' = ended \cup Parts(r.out, "tool_end")
    /\ reended' = reended \cup (ended \cap Parts(r.out, "tool_end"))
                          \cup Twice(r.out, "tool_end", "partId")

CarriedBy(out) == { out[i].messageId : i \in 1..Len(out) } \ {NULL}
TextTypes == {"message", "token", "text_part_complete"}

ObserveStale(e, r) ==
    LET first == IF firstSeen = NULL THEN Handled(e) ELSE firstSeen
        ofUser == first \in UserIds /\ Handled(e) = first
    IN  /\ carried' = carried \cup CarriedBy(r.out)
        /\ fresh' = (fresh /\ Handled(e) \notin stale)
        /\ firstSeen' = first
        /\ userTextSeen' = (userTextSeen \/ (ofUser /\ IsTextPart(e)))
        /\ userLeak' = \/ userLeak
                       \/ ofUser /\ \E i \in 1..Len(r.out) : r.out[i].type \in TextTypes
                       \/ first \in UserIds /\ first \in CarriedBy(r.out)
        /\ UNCHANGED stale

\* A message completed without tool parts handled since the completion (or reset,
\* or cancel) before it is completed text-only.
ObserveSlot(e, r) ==
    LET ids == Ids(r.out, "message_complete")
        completed == ids # {}
    IN  /\ toolSeen' = IF completed THEN FALSE
                       ELSE (toolSeen \/ (IsToolPart(e) /\ ~Dropped(e)))
        /\ keptUntilReset' = IF completed /\ ~toolSeen
                             THEN CHOOSE m \in ids : TRUE
                             ELSE keptUntilReset

InitEP ==
    /\ currentAssistantMessageId = NULL
    /\ currentOpenCodeUserMessageId = NULL
    /\ toolStates = <<>>
    /\ runningToolWatch = <<>>
    /\ sentToolEvents = {}
    /\ now = StartTime
    /\ lastEvent = Ev("init")
    /\ emitted = <<>>
    /\ flip = 0
    /\ scen = NoScen
    /\ announced = {}
    /\ reannounced = {}
    /\ ended = {}
    /\ reended = {}
    /\ carried = {}
    /\ stale = {}
    /\ fresh = TRUE
    /\ firstSeen = NULL
    /\ userTextSeen = FALSE
    /\ userLeak = FALSE
    /\ toolSeen = FALSE
    /\ keptUntilReset = NULL
    /\ completedIds = {}
    /\ recompleted = {}
    /\ lastBeat = [c \in ToolCalls |-> StartTime]
    /\ beats = [c \in ToolCalls |-> StartTime - StartTime]
    /\ earlyBeat = FALSE

(***************************************************************************)
(* SessionRuntime.ensureRuntimeReady                                       *)
(***************************************************************************)
Callers == 1..MaxCallers
Attempts == 1..MaxAttempts
\* No promise: the null of ensureReadyPromise.
NoAttempt == MaxAttempts - MaxAttempts

\* The provisioning sequence, in order; "idle" before it starts, then "done" or "failed".
Sequence ==
    <<"waitForMigrationLockRelease", "loadSessionContext", "ensureSandbox",
      "updateSession", "scheduleSessionExpiry", "ensureOpenCodeSession", "sseConnect">>

InFlight(a) == \E i \in 1..Len(Sequence) : attempts[a] = Sequence[i]
StepIndex(a) == CHOOSE i \in 1..Len(Sequence) : attempts[a] = Sequence[i]

InitRT ==
    /\ ensureReadyPromise = NoAttempt
    /\ attempts = [a \in Attempts |-> "idle"]
    /\ callers = [c \in Callers |-> [state |-> "idle", promise |-> NoAttempt]]
    /\ providerCalls = [a \in Attempts |-> 0]

\* A slip: the cached promise is not consulted, every call starts an attempt.
ensureRuntimeReady_NoCache(c) ==
    \E a \in Attempts :
        /\ attempts[a] = "idle"
        /\ \A b \in Attempts : b < a => attempts[b] # "idle"
        /\ attempts' = [attempts EXCEPT ![a] = Sequence[1]]
        /\ ensureReadyPromise' = a
        /\ callers' = [callers EXCEPT ![c] = [state |-> "waiting", promise |-> a]]
        /\ UNCHANGED providerCalls

\* ensureRuntimeReady(): the cached promise if one is in flight, else a new attempt
\* whose promise is cached until it settles.
ensureRuntimeReady(c) ==
    IF ensureReadyPromise # NoAttempt
    THEN /\ callers' = [callers EXCEPT ![c] = [state |-> "waiting",
                                                 promise |-> ensureReadyPromise]]
         /\ UNCHANGED <<ensureReadyPromise, attempts, providerCalls>>
    ELSE \E a \in Attempts :
            /\ attempts[a] = "idle"
            /\ \A b \in Attempts : b < a => attempts[b] # "idle"
            /\ attempts' = [attempts EXCEPT ![a] = Sequence[1]]
            /\ ensureReadyPromise' = a
            /\ callers' = [callers EXCEPT ![c] = [state |-> "waiting", promise |-> a]]
            /\ UNCHANGED providerCalls

\* A caller (a client connect, a reconnect attempt) calls ensureRuntimeReady().
Call ==
    \E c \in Callers :
        /\ callers[c].state = "idle"
        /\ ensureRuntimeReady(c)
        /\ UNCHANGED <<epVars, envVars>>

\* The promise of attempt a settles: every caller holding it continues, and the cache
\* is cleared if it still holds this promise.
Settle(a, outcome) ==
    /\ attempts' = [attempts EXCEPT ![a] = outcome]
    /\ callers' = [c \in Callers |->
                     IF callers[c].state = "waiting" /\ callers[c].promise = a
                     THEN [callers[c] EXCEPT !.state = IF outcome = "done" THEN "resolved"
                                                       ELSE "rejected"]
                     ELSE callers[c]]
    /\ ensureReadyPromise' = IF ensureReadyPromise = a THEN NoAttempt ELSE ensureReadyPromise

\* One step of the sequence succeeds; the ensureSandbox step calls the provider.
Advance ==
    \E a \in Attempts :
        /\ InFlight(a)
        /\ providerCalls' = [providerCalls EXCEPT ![a] =
                               IF attempts[a] = "ensureSandbox" THEN @ + 1 ELSE @]
        /\ IF StepIndex(a) < Len(Sequence)
           THEN /\ attempts' = [attempts EXCEPT ![a] = Sequence[StepIndex(a) + 1]]
                /\ UNCHANGED <<ensureReadyPromise, callers>>
           ELSE Settle(a, "done")
        /\ UNCHANGED <<epVars, envVars>>

\* One step of the sequence throws: the promise rejects for all waiters, no retry.
Fail ==
    \E a \in Attempts :
        /\ InFlight(a)
        /\ providerCalls' = [providerCalls EXCEPT ![a] =
                               IF attempts[a] = "ensureSandbox" THEN @ + 1 ELSE @]
        /\ Settle(a, "failed")
        /\ UNCHANGED <<epVars, envVars>>

\* A caller whose promise settled goes on (and may call again later).
Return ==
    \E c \in Callers :
        /\ callers[c].state \in {"resolved", "rejected"}
        /\ callers' = [callers EXCEPT ![c] = [state |-> "idle", promise |-> NoAttempt]]
        /\ UNCHANGED <<ensureReadyPromise, attempts, providerCalls, epVars, envVars>>

NextRT == Call \/ Advance \/ Fail \/ Return

(***************************************************************************)
(* MigrationController.migrateToNewSandbox and the client-triggered start  *)
(***************************************************************************)
Gateways == {"gw1", "gw2"}
NoGateway == "none"
\* No sandbox, no snapshot: the null of sandboxId and snapshotId.
NoId == MaxSandboxes - MaxSandboxes

migrationLockTtlMs == 60000
drainTimeoutMs == 30000
\* The clock advances in steps of the drain timeout.
TickMs == drainTimeoutMs

SandboxIds == 1..MaxSandboxes
InMigration ==
    {"ensureOpenCodeStopped", "snapshot", "persist", "disconnectSse", "resetSandboxState",
     "ensureRuntimeReady", "pause", "markPaused", "snapshotIdle", "terminate",
     "markStopped"}
Ended == {"done", "aborted", "failed", "skipped"}
Migrating(p) == pc[p] \in InMigration
\* Past waitForMigrationLockRelease and not yet connected.
ColdStarting(p) ==
    \E i \in 2..Len(Sequence) : cold[p] = Sequence[i]

InitMigWith(pause) ==
    /\ clock = 0
    /\ lock = [holder |-> NoGateway, until |-> 0]
    /\ pc = [p \in Gateways |-> "idle"]
    /\ cold = [p \in Gateways |-> "idle"]
    /\ clients = 1
    /\ supportsPause = pause
    /\ row = [status |-> "running", sandboxId |-> 1, snapshotId |-> NoId]
    /\ sandboxes = [b \in SandboxIds |->
                      IF b = 1 THEN [state |-> "running", from |-> NoId]
                      ELSE [state |-> "none", from |-> NoId]]
    /\ snapshots = 0
    /\ runtime = [p \in Gateways |->
                    IF p = "gw1" THEN [sandboxId |-> 1, sse |-> TRUE]
                    ELSE [sandboxId |-> NoId, sse |-> FALSE]]
    /\ seen = <<"running">>
    /\ took = [p \in Gateways |-> NoId]
    /\ before = [p \in Gateways |->
                   [at |-> 0, snapshotId |-> NoId, boxes |-> {}, clients |-> 0,
                    runtime |-> [sandboxId |-> NoId, sse |-> FALSE],
                    status |-> "running"]]

\* VPSProvider has supportsPause = true; other providers have not.
InitMig == InitMigWith(TRUE)
InitProviders == \E pause \in BOOLEAN : InitMigWith(pause)

\* The lock is free when nobody holds it or its TTL has run out.
LockFree == lock.holder = NoGateway \/ clock >= lock.until
\* Release by the holder; an expired lock taken over by another is left alone.
Released(p) == IF lock.holder = p THEN [holder |-> NoGateway, until |-> 0] ELSE lock
Existing == { b \in SandboxIds : sandboxes[b].state # "none" }
NewSandbox == CHOOSE b \in SandboxIds \ Existing : \A c \in SandboxIds \ Existing : b <= c

\* runWithMigrationLock(sessionId, 60s): take the lock if it is free, else skip
\* this attempt.
runWithMigrationLock(p) ==
    IF LockFree
    THEN /\ lock' = [holder |-> p, until |-> clock + migrationLockTtlMs]
         /\ pc' = [pc EXCEPT ![p] = "ensureOpenCodeStopped"]
    ELSE /\ pc' = [pc EXCEPT ![p] = "skipped"]
         /\ UNCHANGED lock

\* The expiry job of the running session fires on gateway p.
ExpiryJobFires(p) ==
    /\ pc[p] = "idle"
    /\ row.status = "running"
    /\ snapshots < MaxSnapshots
    /\ runWithMigrationLock(p)
    /\ took' = [took EXCEPT ![p] = NoId]
    /\ before' = [before EXCEPT ![p] =
                    [at |-> clock, snapshotId |-> row.snapshotId, boxes |-> Existing,
                     clients |-> clients, runtime |-> runtime[p],
                     status |-> seen[Len(seen)]]]
    /\ seen' = <<seen[Len(seen)]>>
    /\ UNCHANGED <<clock, cold, clients, supportsPause, row, sandboxes, snapshots,
                   runtime>>

\* A slip: the clients are not told that the session is migrating.
AfterDrain_Silent(p) ==
    IF clients > 0
    THEN /\ pc' = [pc EXCEPT ![p] = "snapshot"]
         /\ UNCHANGED <<seen, runtime>>
    ELSE /\ pc' = [pc EXCEPT ![p] = IF supportsPause THEN "pause" ELSE "snapshotIdle"]
         /\ UNCHANGED <<seen, runtime>>

\* A slip: the old connection is torn down before the snapshot is taken.
AfterDrain_TeardownFirst(p) ==
    IF clients > 0
    THEN /\ seen' = Append(seen, "migrating")
         /\ runtime' = [runtime EXCEPT ![p] = [sandboxId |-> NoId, sse |-> FALSE]]
         /\ pc' = [pc EXCEPT ![p] = "snapshot"]
    ELSE /\ pc' = [pc EXCEPT ![p] = IF supportsPause THEN "pause" ELSE "snapshotIdle"]
         /\ UNCHANGED <<seen, runtime>>

\* After ensureOpenCodeStopped: with clients, migrationState = "migrating" and the
\* status is broadcast; without, the idle shutdown by pause or by snapshot + terminate.
AfterDrain(p) ==
    IF clients > 0
    THEN /\ seen' = Append(seen, "migrating")
         /\ pc' = [pc EXCEPT ![p] = "snapshot"]
         /\ UNCHANGED runtime
    ELSE /\ pc' = [pc EXCEPT ![p] = IF supportsPause THEN "pause" ELSE "snapshotIdle"]
         /\ UNCHANGED <<seen, runtime>>

\* ensureOpenCodeStopped(30s) returns: the turn finished or was aborted.
EnsureOpenCodeStopped(p) ==
    /\ pc[p] = "ensureOpenCodeStopped"
    /\ AfterDrain(p)
    /\ UNCHANGED <<clock, lock, cold, clients, supportsPause, row, sandboxes, snapshots,
                   took, before>>

\* provider.snapshot(sessionId, sandboxId) returns a new snapshot id.
Snapshot(p) ==
    /\ pc[p] \in {"snapshot", "snapshotIdle"}
    /\ snapshots' = snapshots + 1
    /\ took' = [took EXCEPT ![p] = snapshots + 1]
    /\ pc' = [pc EXCEPT ![p] = IF pc[p] = "snapshot" THEN "persist" ELSE "terminate"]
    /\ UNCHANGED <<clock, lock, cold, clients, supportsPause, row, sandboxes, runtime,
                   seen, before>>

\* provider.snapshot or provider.pause throws: the migration aborts. The name the
\* provider made up for the snapshot is spent, no image carries it.
SnapshotFails(p) ==
    /\ pc[p] \in {"snapshot", "snapshotIdle", "pause"}
    /\ snapshots' = snapshots + 1
    /\ pc' = [pc EXCEPT ![p] = "aborted"]
    /\ lock' = Released(p)
    /\ UNCHANGED <<clock, cold, clients, supportsPause, row, sandboxes,
                   runtime, seen, took, before>>

\* A slip: the snapshot id is not written to the session row.
persistSnapshot_Forgotten(p) == row

\* sessions.update(sessionId, { snapshotId })
persistSnapshot(p) == [row EXCEPT !.snapshotId = took[p]]

Persist(p) ==
    /\ pc[p] = "persist"
    /\ row' = persistSnapshot(p)
    /\ pc' = [pc EXCEPT ![p] = "disconnectSse"]
    /\ UNCHANGED <<clock, lock, cold, clients, supportsPause, sandboxes, snapshots,
                   runtime, seen, took, before>>

\* runtime.disconnectSse()
DisconnectSse(p) ==
    /\ pc[p] = "disconnectSse"
    /\ runtime' = [runtime EXCEPT ![p].sse = FALSE]
    /\ pc' = [pc EXCEPT ![p] = "resetSandboxState"]
    /\ UNCHANGED <<clock, lock, cold, clients, supportsPause, row, sandboxes, snapshots,
                   seen, took, before>>

\* runtime.resetSandboxState()
ResetSandboxState(p) ==
    /\ pc[p] = "resetSandboxState"
    /\ runtime' = [runtime EXCEPT ![p].sandboxId = NoId]
    /\ pc' = [pc EXCEPT ![p] = "ensureRuntimeReady"]
    /\ UNCHANGED <<clock, lock, cold, clients, supportsPause, row, sandboxes, snapshots,
                   seen, took, before>>

\* provider.ensureSandbox creates a sandbox from the snapshot (from the base image
\* when there is none).
createSandboxFrom(snapshotId) ==
    /\ Existing # SandboxIds
    /\ sandboxes' = [sandboxes EXCEPT ![NewSandbox] =
                       [state |-> "running", from |-> snapshotId]]

\* runtime.ensureRuntimeReady({ skipMigrationLock: true }) joins a provisioning
\* that is in flight in this process (ensureReadyPromise) and returns at once when
\* the runtime is ready; else it creates a new sandbox from the fresh snapshot.
\* Then migrationState = "normal", broadcastStatus("running").
MigrationReady(p) ==
    /\ pc[p] = "ensureRuntimeReady"
    /\ cold[p] = "idle"
    /\ IF runtime[p].sse
       THEN UNCHANGED <<row, runtime, sandboxes>>
       ELSE /\ createSandboxFrom(row.snapshotId)
            /\ row' = [row EXCEPT !.sandboxId = NewSandbox, !.status = "running"]
            /\ runtime' = [runtime EXCEPT ![p] = [sandboxId |-> NewSandbox, sse |-> TRUE]]
    /\ seen' = Append(seen, "running")
    /\ lock' = Released(p)
    /\ pc' = [pc EXCEPT ![p] = "done"]
    /\ UNCHANGED <<clock, cold, clients, supportsPause, snapshots, took, before>>

\* ... or rejects: the failure is surfaced as an error status.
MigrationReadyFails(p) ==
    /\ pc[p] = "ensureRuntimeReady"
    /\ cold[p] = "idle"
    /\ ~runtime[p].sse
    /\ seen' = Append(seen, "error")
    /\ lock' = Released(p)
    /\ pc' = [pc EXCEPT ![p] = "failed"]
    /\ UNCHANGED <<clock, cold, clients, supportsPause, row, sandboxes, snapshots,
                   runtime, took, before>>

\* provider.pause() returns a snapshot id; the sandbox is paused.
Pause(p) ==
    /\ pc[p] = "pause"
    /\ snapshots' = snapshots + 1
    /\ took' = [took EXCEPT ![p] = snapshots + 1]
    /\ sandboxes' = [b \in SandboxIds |->
                       IF b = row.sandboxId THEN [sandboxes[b] EXCEPT !.state = "paused"]
                       ELSE sandboxes[b]]
    /\ pc' = [pc EXCEPT ![p] = "markPaused"]
    /\ UNCHANGED <<clock, lock, cold, clients, supportsPause, row, runtime, seen, before>>

\* provider.terminate()
Terminate(p) ==
    /\ pc[p] = "terminate"
    /\ sandboxes' = [b \in SandboxIds |->
                       IF b = row.sandboxId
                       THEN [sandboxes[b] EXCEPT !.state = "terminated"]
                       ELSE sandboxes[b]]
    /\ pc' = [pc EXCEPT ![p] = "markStopped"]
    /\ UNCHANGED <<clock, lock, cold, clients, supportsPause, row, snapshots, runtime,
                   seen, took, before>>

\* A slip: the idle shutdown always records `stopped`.
idleStatus_AlwaysStopped(p) == "stopped"

\* sessions.update({ status: "paused" | "stopped", snapshotId })
idleStatus(p) == IF pc[p] = "markPaused" THEN "paused" ELSE "stopped"

MarkIdle(p) ==
    /\ pc[p] \in {"markPaused", "markStopped"}
    /\ row' = [row EXCEPT !.status = idleStatus(p), !.snapshotId = took[p]]
    /\ runtime' = [runtime EXCEPT ![p] = [sandboxId |-> NoId, sse |-> FALSE]]
    /\ lock' = Released(p)
    /\ pc' = [pc EXCEPT ![p] = "done"]
    /\ UNCHANGED <<clock, cold, clients, supportsPause, sandboxes, snapshots, seen, took,
                   before>>

\* The migration job returns.
MigrationReturns(p) ==
    /\ pc[p] \in Ended
    /\ pc' = [pc EXCEPT ![p] = "idle"]
    /\ UNCHANGED <<clock, lock, cold, clients, supportsPause, row, sandboxes, snapshots,
                   runtime, seen, took, before>>

\* Time passes while a migration or a start is under way; the wait for the agent's
\* turn is over after drainTimeoutMs.
Tick ==
    /\ clock < MaxTicks * TickMs
    /\ \E p \in Gateways : Migrating(p) \/ cold[p] # "idle"
    /\ \A p \in Gateways :
          pc[p] = "ensureOpenCodeStopped" => clock - before[p].at < drainTimeoutMs
    /\ clock' = clock + TickMs
    /\ UNCHANGED <<lock, pc, cold, clients, supportsPause, row, sandboxes, snapshots,
                   runtime, seen, took, before, epVars, rtVars, vpsVars, hubVars, extVars>>

\* A client connects to gateway p: ensureRuntimeReady() when its runtime is not ready.
ClientConnects(p) ==
    /\ clients = 0
    /\ cold[p] = "idle"
    /\ pc[p] = "idle"
    /\ clients' = 1
    /\ cold' = [cold EXCEPT ![p] = IF runtime[p].sse THEN "idle" ELSE Sequence[1]]
    /\ UNCHANGED <<clock, lock, pc, supportsPause, row, sandboxes, snapshots, runtime,
                   seen, took, before, epVars, rtVars, vpsVars, hubVars, extVars>>

\* The client leaves while nothing is under way.
ClientDisconnects ==
    /\ clients = 1
    /\ \A p \in Gateways : pc[p] = "idle" /\ cold[p] = "idle"
    /\ clients' = 0
    /\ UNCHANGED <<clock, lock, pc, cold, supportsPause, row, sandboxes, snapshots,
                   runtime, seen, took, before, epVars, rtVars, vpsVars, hubVars, extVars>>

\* waitForMigrationLockRelease(): blocks while a migration holds the lock.
waitForMigrationLockRelease == LockFree

\* One step of the client-triggered ensureRuntimeReady() on gateway p.
ColdStartStep(p) ==
    /\ cold[p] # "idle"
    /\ LET step == cold[p]
           i == CHOOSE j \in 1..Len(Sequence) : Sequence[j] = step
           alive == row.sandboxId # NoId /\ sandboxes[row.sandboxId].state = "running"
       IN  /\ step = "waitForMigrationLockRelease" => waitForMigrationLockRelease
           /\ cold' = [cold EXCEPT ![p] = IF i < Len(Sequence) THEN Sequence[i + 1]
                                         ELSE "idle"]
           /\ IF step = "ensureSandbox" /\ ~alive
              THEN /\ createSandboxFrom(row.snapshotId)
                   /\ row' = [row EXCEPT !.sandboxId = NewSandbox]
                   /\ runtime' = [runtime EXCEPT ![p].sandboxId = NewSandbox]
              ELSE IF step = "ensureSandbox"
              THEN /\ runtime' = [runtime EXCEPT ![p].sandboxId = row.sandboxId]
                   /\ UNCHANGED <<row, sandboxes>>
              ELSE IF step = "updateSession"
              THEN /\ row' = [row EXCEPT !.status = "running"]
                   /\ UNCHANGED <<runtime, sandboxes>>
              ELSE IF step = "sseConnect"
              THEN /\ runtime' = [runtime EXCEPT ![p].sse = TRUE]
                   /\ UNCHANGED <<row, sandboxes>>
              ELSE UNCHANGED <<row, sandboxes, runtime>>
           /\ seen' = IF step = "sseConnect" THEN Append(seen, "running") ELSE seen
    /\ UNCHANGED <<clock, lock, pc, clients, supportsPause, snapshots, took, before>>

MigrationStep(p) ==
    \/ ExpiryJobFires(p)
    \/ EnsureOpenCodeStopped(p)
    \/ Snapshot(p)
    \/ SnapshotFails(p)
    \/ Persist(p)
    \/ DisconnectSse(p)
    \/ ResetSandboxState(p)
    \/ MigrationReady(p)
    \/ MigrationReadyFails(p)
    \/ Pause(p)
    \/ Terminate(p)
    \/ MarkIdle(p)
    \/ MigrationReturns(p)

\* One gateway holds the session's hub.
Migrate == MigrationStep("gw1") /\ UNCHANGED <<epVars, rtVars, vpsVars, hubVars, extVars>>
Connect == ClientConnects("gw1")
ColdStart == ColdStartStep("gw1") /\ UNCHANGED <<epVars, rtVars, vpsVars, hubVars, extVars>>
NextMig == Migrate \/ Connect \/ ColdStart \/ ClientDisconnects \/ Tick

\* Several gateways hold a hub of the session.
MigrateAny == \E p \in Gateways : MigrationStep(p) /\ UNCHANGED <<epVars, rtVars, vpsVars, hubVars, extVars>>
\* The client comes back through the other gateway.
ConnectOther == ClientConnects("gw2")
ColdStartOther == ColdStartStep("gw2") /\ UNCHANGED <<epVars, rtVars, vpsVars, hubVars, extVars>>
NextMigs == MigrateAny \/ Tick
NextCold == Migrate \/ ConnectOther \/ ColdStartOther \/ ClientDisconnects \/ Tick

(***************************************************************************)
(* VPSProvider: Docker containers on one host, driven over SSH.            *)
(***************************************************************************)
Sessions == {"s1", "s2"}
ContainerNos == 1..MaxContainers
\* `docker run -d` prints the container's full id; `docker ps` prints ids cut to
\* the short form unless --no-trunc is given.
dockerIdLength == 64
dockerShortIdLength == 12
HexDigits == <<"1", "2", "3", "4", "5", "6", "7", "8", "9">>
ContainerId(n) == [i \in 1..dockerIdLength |-> IF i = 1 THEN HexDigits[n] ELSE "0"]
ShortId(id) == SubSeq(id, 1, dockerShortIdLength)
\* currentSandboxId undefined
NoContainerId == << >>
NoContainer == [state |-> "none", name |-> << >>]

\* const containerName = `shadow-${opts.sessionId}`
containerName(sessionId) == <<"shadow-", sessionId>>

\* String.prototype.startsWith
startsWith(s, prefix) ==
    /\ Len(prefix) <= Len(s)
    /\ SubSeq(s, 1, Len(prefix)) = prefix

\* What the directory VPS_DATA_VOLUME/<sessionId> holds: what createSandbox puts into
\* an empty workspace (NoWork, also when the directory does not exist), or that and
\* the agent's changes, counted.
NoWork == MaxEdits - MaxEdits
\* A snapshot image: `docker commit` of a sandbox of the session. workspaceAt is what
\* the sandbox had in /workspace when it was committed; /workspace is a mount, and
\* docker commit leaves the data of mounts out of the image.
NoImage == [session |-> "none", workspaceAt |-> NoWork]
snapshotOf(sessionId) == [session |-> sessionId, workspaceAt |-> volumes[sessionId]]

InitVps ==
    /\ containers = [n \in ContainerNos |-> NoContainer]
    /\ made = MaxContainers - MaxContainers
    /\ current = [s \in Sessions |-> NoContainerId]
    /\ last = [session |-> "s1", passed |-> NoContainerId, alive |-> FALSE,
               existed |-> FALSE, healthy |-> FALSE, outcome |-> "none",
               recovered |-> FALSE, sandboxId |-> NoContainerId, fresh |-> FALSE,
               snapshot |-> NoImage, paused |-> FALSE, left |-> FALSE,
               workspace |-> NoWork]
    /\ volumes = [s \in Sessions |-> NoWork]
    /\ images = {}

OnHost(n) == containers[n].state \in {"running", "exited"}
Running(id) == \E n \in ContainerNos : containers[n].state = "running" /\ ContainerId(n) = id
Present(id) == \E n \in ContainerNos : OnHost(n) /\ ContainerId(n) = id

\* docker ps --filter "status=running" --format "{{.ID}}"
dockerPs == {ShortId(ContainerId(n)) : n \in {m \in ContainerNos : containers[m].state = "running"}}

\* sandboxIds.filter((id) => runningIds.some((rid) => rid.startsWith(id)))
checkSandboxes(sandboxIds) ==
    {id \in sandboxIds : \E rid \in dockerPs : startsWith(rid, id)}

\* docker run --name fails when a container of that name is on the host, running
\* or not.
nameTaken(name) == \E n \in ContainerNos : OnHost(n) /\ containers[n].name = name

\* createSandbox: `docker run -d --name shadow-<sessionId> -v <volume>:/workspace
\* <image>`, `docker port`, injectSandboxFiles and startOpenCode. daemonOk, portsOk
\* and agentOk are the host's answers to these steps apart from the name check.
\* A failed port lookup terminates the new container; a failure of the file
\* injection or of the agent start propagates with the container left running.
\* The new container's /workspace is the session's directory, whatever the image.
createSandbox(sessionId, daemonOk, portsOk, agentOk) ==
    IF ~daemonOk \/ nameTaken(containerName(sessionId))
    THEN [outcome |-> "threw", sandboxId |-> NoContainerId, state |-> "none",
          workspace |-> volumes[sessionId]]
    ELSE IF ~portsOk
    THEN [outcome |-> "threw", sandboxId |-> NoContainerId, state |-> "removed",
          workspace |-> NoWork]
    ELSE IF ~agentOk
    THEN [outcome |-> "threw", sandboxId |-> NoContainerId, state |-> "running",
          workspace |-> volumes[sessionId]]
    ELSE [outcome |-> "returned", sandboxId |-> ContainerId(made + 1), state |-> "running",
          workspace |-> volumes[sessionId]]

\* ensureSandbox(opts): recover opts.currentSandboxId when checkSandboxes reports
\* it, else createSandbox (from opts.snapshotId when given). The caller stores the
\* returned sandboxId.
EnsureSandbox(sessionId, pass, snapshotId, daemonOk, portsOk, agentOk) ==
    /\ made < MaxContainers
    /\ LET currentSandboxId == IF pass THEN current[sessionId] ELSE NoContainerId
           alive == IF currentSandboxId # NoContainerId
                    THEN checkSandboxes({currentSandboxId}) ELSE {}
           result == createSandbox(sessionId, daemonOk, portsOk, agentOk)
           stopped == \E n \in ContainerNos :
                          /\ containers[n].state = "exited"
                          /\ containers[n].name = containerName(sessionId)
       IN  IF alive # {}
           THEN /\ last' = [session |-> sessionId, passed |-> currentSandboxId,
                            alive |-> Running(currentSandboxId),
                            existed |-> Present(currentSandboxId), healthy |-> TRUE,
                            outcome |-> "returned", recovered |-> TRUE,
                            sandboxId |-> currentSandboxId, fresh |-> FALSE,
                            snapshot |-> snapshotId, paused |-> stopped,
                            left |-> FALSE, workspace |-> volumes[sessionId]]
                /\ UNCHANGED <<containers, made, current, volumes>>
           ELSE /\ last' = [session |-> sessionId, passed |-> currentSandboxId,
                            alive |-> Running(currentSandboxId),
                            existed |-> Present(currentSandboxId),
                            healthy |-> daemonOk /\ portsOk /\ agentOk,
                            outcome |-> result.outcome, recovered |-> FALSE,
                            sandboxId |-> result.sandboxId,
                            fresh |-> result.outcome = "returned",
                            snapshot |-> snapshotId, paused |-> stopped,
                            left |-> result.outcome = "threw" /\ result.state = "running",
                            workspace |-> result.workspace]
                /\ IF result.state = "none"
                   THEN UNCHANGED <<containers, made>>
                   ELSE /\ made' = made + 1
                        /\ containers' = [containers EXCEPT ![made + 1] =
                              [state |-> result.state, name |-> containerName(sessionId)]]
                /\ volumes' = [volumes EXCEPT ![sessionId] = result.workspace]
                /\ current' = IF result.outcome = "returned"
                              THEN [current EXCEPT ![sessionId] = result.sandboxId]
                              ELSE current
    /\ UNCHANGED <<images, epVars, rtVars, migVars, hubVars, extVars>>

\* snapshot(sessionId, sandboxId): docker commit of the container as a new image.
VpsSnapshot(sessionId, commitOk) ==
    /\ Running(current[sessionId])
    /\ images' = IF commitOk THEN images \cup {snapshotOf(sessionId)} ELSE images
    /\ UNCHANGED <<containers, made, current, last, volumes, epVars, rtVars, migVars,
                   hubVars, extVars>>

\* pause(sessionId, sandboxId): snapshot (docker commit), then docker stop; a failed
\* commit throws before the stop.
VpsPause(sessionId, commitOk) ==
    /\ Running(current[sessionId])
    /\ images' = IF commitOk THEN images \cup {snapshotOf(sessionId)} ELSE images
    /\ containers' = [n \in ContainerNos |->
                        IF commitOk /\ ContainerId(n) = current[sessionId]
                        THEN [containers[n] EXCEPT !.state = "exited"]
                        ELSE containers[n]]
    /\ UNCHANGED <<made, current, last, volumes, epVars, rtVars, migVars, hubVars, extVars>>

\* terminate(sessionId, sandboxId?): docker stop and docker rm of the sandbox id,
\* or of the container name when no id is given, then rm -rf of the session's
\* workspace directory.
VpsTerminate(sessionId, pass) ==
    /\ \E n \in ContainerNos : OnHost(n) /\ containers[n].name = containerName(sessionId)
    /\ containers' = [n \in ContainerNos |->
                        IF /\ OnHost(n)
                           /\ IF pass /\ current[sessionId] # NoContainerId
                              THEN ContainerId(n) = current[sessionId]
                              ELSE containers[n].name = containerName(sessionId)
                        THEN [containers[n] EXCEPT !.state = "removed"]
                        ELSE containers[n]]
    /\ volumes' = [volumes EXCEPT ![sessionId] = NoWork]
    /\ UNCHANGED <<made, current, last, images, epVars, rtVars, migVars, hubVars, extVars>>

\* The agent of a running sandbox changes files under /workspace.
VpsAgentWrites(sessionId) ==
    /\ \E n \in ContainerNos :
           containers[n].state = "running" /\ containers[n].name = containerName(sessionId)
    /\ volumes[sessionId] < MaxEdits
    /\ volumes' = [volumes EXCEPT ![sessionId] = @ + 1]
    /\ UNCHANGED <<containers, made, current, last, images, epVars, rtVars, migVars,
                   hubVars, extVars>>

Ensure ==
    \E s \in Sessions : \E pass \in BOOLEAN : \E daemonOk \in BOOLEAN :
        \E portsOk \in BOOLEAN : EnsureSandbox(s, pass, NoImage, daemonOk, portsOk, TRUE)
PauseSandbox == \E s \in Sessions : \E commitOk \in BOOLEAN : VpsPause(s, commitOk)
TerminateSandbox == \E s \in Sessions : \E pass \in BOOLEAN : VpsTerminate(s, pass)
NextVps == Ensure \/ PauseSandbox \/ TerminateSandbox

\* The host's answers to createSandbox's steps: all well, or one step failing.
BoxAnswers ==
    {<<TRUE, TRUE, TRUE>>, <<FALSE, TRUE, TRUE>>, <<TRUE, FALSE, TRUE>>,
     <<TRUE, TRUE, FALSE>>}
EnsureFrom ==
    \E s \in Sessions : \E pass \in BOOLEAN : \E snapshotId \in images \cup {NoImage} :
        \E a \in BoxAnswers : EnsureSandbox(s, pass, snapshotId, a[1], a[2], a[3])
SnapshotSandbox == \E s \in Sessions : \E commitOk \in BOOLEAN : VpsSnapshot(s, commitOk)
AgentWrites == \E s \in Sessions : VpsAgentWrites(s)
NextBox == EnsureFrom \/ SnapshotSandbox \/ PauseSandbox \/ TerminateSandbox \/ AgentWrites

(***************************************************************************)
(* SessionHub: reconnecting the SSE stream with a bounded backoff.         *)
(***************************************************************************)
HubClients == {"c1", "c2"}
SecondMs == 1000

\* A slip: a doubling formula in place of the literal.
reconnectDelaysMs_Doubling == <<SecondMs, 2 * SecondMs, 4 * SecondMs, 8 * SecondMs>>

\* [1s, 2s, 5s, 10s]
reconnectDelaysMs == <<SecondMs, 2 * SecondMs, 5 * SecondMs, 10 * SecondMs>>

InitHub ==
    /\ wsClients = {"c1"}
    /\ automation = FALSE
    /\ sse = "connected"
    /\ reconnectAttempt = Len(<< >>)
    /\ sinceFailure = Len(<< >>)
    /\ failures = Len(<< >>)
    /\ attemptedAfter = << >>
    /\ hubStatus = "running"

InitHubs ==
    /\ wsClients \in SUBSET HubClients
    /\ automation \in BOOLEAN
    /\ sse = "connected"
    /\ reconnectAttempt = Len(<< >>)
    /\ sinceFailure = Len(<< >>)
    /\ failures = Len(<< >>)
    /\ attemptedAfter = << >>
    /\ hubStatus = "running"

\* The hub keeps the stream up for its clients, and for an automation session
\* even without clients.
shouldReconnect == wsClients # {} \/ automation

\* The stream failed (SseClient.onDisconnect, or a reconnect attempt that failed):
\* wait for the next delay of the sequence, or give up with status `error` when
\* the sequence is used up.
handleSseDisconnect ==
    /\ failures' = failures + 1
    /\ sinceFailure' = Len(<< >>)
    /\ IF ~shouldReconnect
       THEN /\ sse' = "down"
            /\ UNCHANGED <<reconnectAttempt, hubStatus>>
       ELSE IF reconnectAttempt < Len(reconnectDelaysMs)
       THEN /\ sse' = "waiting"
            /\ reconnectAttempt' = reconnectAttempt + 1
            /\ UNCHANGED hubStatus
       ELSE /\ sse' = "down"
            /\ hubStatus' = "error"
            /\ UNCHANGED reconnectAttempt

\* SseClient reports the loss of the stream.
SseDisconnects ==
    /\ sse = "connected"
    /\ handleSseDisconnect
    /\ UNCHANGED <<wsClients, automation, attemptedAfter, epVars, rtVars, migVars,
                   vpsVars, extVars>>

\* Time passes while the hub waits to reconnect.
HubTick ==
    /\ sse = "waiting"
    /\ sinceFailure < reconnectDelaysMs[reconnectAttempt]
    /\ sinceFailure' = sinceFailure + SecondMs
    /\ UNCHANGED <<wsClients, automation, sse, reconnectAttempt, failures,
                   attemptedAfter, hubStatus, epVars, rtVars, migVars, vpsVars, extVars>>

\* The delay is over: the hub reconnects, and the stream fails again ...
ReconnectFails ==
    /\ sse = "waiting"
    /\ sinceFailure = reconnectDelaysMs[reconnectAttempt]
    /\ attemptedAfter' = Append(attemptedAfter, sinceFailure)
    /\ handleSseDisconnect
    /\ UNCHANGED <<wsClients, automation, epVars, rtVars, migVars, vpsVars, extVars>>

\* ... or is up again, which ends the run of failures.
ReconnectSucceeds ==
    /\ sse = "waiting"
    /\ sinceFailure = reconnectDelaysMs[reconnectAttempt]
    /\ sse' = "connected"
    /\ reconnectAttempt' = Len(<< >>)
    /\ failures' = Len(<< >>)
    /\ sinceFailure' = Len(<< >>)
    /\ attemptedAfter' = << >>
    /\ UNCHANGED <<wsClients, automation, hubStatus, epVars, rtVars, migVars, vpsVars, extVars>>

\* A client connects or leaves while the stream is up.
HubClientChanges ==
    /\ sse = "connected"
    /\ \E c \in HubClients :
          wsClients' = IF c \in wsClients THEN wsClients \ {c} ELSE wsClients \cup {c}
    /\ UNCHANGED <<automation, sse, reconnectAttempt, sinceFailure, failures,
                   attemptedAfter, hubStatus, epVars, rtVars, migVars, vpsVars, extVars>>

NextHub == SseDisconnects \/ HubTick \/ ReconnectFails \/ ReconnectSucceeds
              \/ HubClientChanges

\* ---------------------------------------------------------------------------
\* GitOperations: commit, push and create-PR in the sandbox
\* ---------------------------------------------------------------------------

MaxCommits == 2

WorkspaceFiles == {"a.ts", "new.ts"}

NoGitIdentity == [name |-> "", email |-> ""]

GitIdentities == {[name |-> "pablonyx", email |-> "pablo@example.com"]}

GitCommands == {"commit", "push", "createPr"}

NoEffects == [commits |-> MaxCommits - MaxCommits, pushes |-> MaxCommits - MaxCommits,
              prs |-> MaxCommits - MaxCommits]

GIT_BASE_ENV == [GIT_TERMINAL_PROMPT |-> "0", GH_PAGER |-> "cat", LC_ALL |-> "C"]

getGitIdentityEnv ==
    IF gitIdentity = NoGitIdentity
    THEN << >>
    ELSE [GIT_AUTHOR_NAME |-> gitIdentity.name, GIT_AUTHOR_EMAIL |-> gitIdentity.email,
          GIT_COMMITTER_NAME |-> gitIdentity.name,
          GIT_COMMITTER_EMAIL |-> gitIdentity.email]

getMutableEnv_BaseOnly == GIT_BASE_ENV

\* { ...GIT_BASE_ENV, ...getGitIdentityEnv() }: the later spread wins
getMutableEnv == getGitIdentityEnv @@ GIT_BASE_ENV

getAuthEnv ==
    IF pushToken
    THEN [GIT_TOKEN |-> "token", GH_TOKEN |-> "token", GIT_USERNAME |-> "x-access-token"]
    ELSE << >>

Exec(argv, env) == [argv |-> argv, env |-> env]

InitGitWith(identity, token) ==
    /\ gitIdentity = identity
    /\ pushToken = token
    /\ tracked = {"a.ts"}
    /\ worktree = {}
    /\ index = {}
    /\ head = MaxCommits - MaxCommits
    /\ remote = MaxCommits - MaxCommits
    /\ upstream = FALSE
    /\ pullRequests = MaxCommits - MaxCommits
    /\ execLog = << >>
    /\ gitResult = "NONE"
    /\ effects = [c \in GitCommands |-> NoEffects]
    /\ ran = "none"

InitGit == InitGitWith(CHOOSE i \in GitIdentities : TRUE, TRUE)

\* With or without a push-capable token.
InitGits == \E t \in BOOLEAN : InitGitWith(CHOOSE i \in GitIdentities : TRUE, t)

\* With or without a git identity.
InitIdentities == \E i \in GitIdentities \cup {NoGitIdentity} : InitGitWith(i, TRUE)

\* The staging command commit() picks, and the files it stages.
stageArgv(includeUntracked, files) ==
    IF files # << >>
    THEN <<"git", "add", "--">> \o files
    ELSE IF includeUntracked THEN <<"git", "add", "-A">> ELSE <<"git", "add", "-u">>

staged(includeUntracked, files) ==
    IF files # << >>
    THEN worktree \cap {files[i] : i \in DOMAIN files}
    ELSE IF includeUntracked THEN worktree ELSE worktree \cap tracked

\* commit(message, includeUntracked, files): the result code, the commands run and
\* the repository afterwards.  addOk, diffOk and commitOut are what git answers.
commit(message, includeUntracked, files, addOk, diffOk, commitOut) ==
    LET add == Exec(stageArgv(includeUntracked, files), getMutableEnv)
        diff == Exec(<<"git", "diff", "--cached", "--quiet">>, getMutableEnv)
        run == Exec(<<"git", "commit", "-m", message>>, getMutableEnv)
        idx == index \cup staged(includeUntracked, files)
        wt == worktree \ staged(includeUntracked, files)
        kept == [tracked |-> tracked, worktree |-> wt, index |-> idx, head |-> head]
    IN  IF ~addOk
        THEN [code |-> "UNKNOWN_ERROR", log |-> <<add>>,
              repo |-> [tracked |-> tracked, worktree |-> worktree, index |-> index,
                        head |-> head]]
        ELSE IF ~diffOk
        THEN [code |-> "UNKNOWN_ERROR", log |-> <<add, diff>>, repo |-> kept]
        ELSE IF idx = {}
        THEN [code |-> "NOTHING_TO_COMMIT", log |-> <<add, diff>>, repo |-> kept]
        ELSE IF commitOut # "SUCCESS"
        THEN [code |-> commitOut, log |-> <<add, diff, run>>, repo |-> kept]
        ELSE [code |-> "SUCCESS", log |-> <<add, diff, run>>,
              repo |-> [tracked |-> tracked \cup idx, worktree |-> wt, index |-> {},
                        head |-> head + 1]]

\* determinePushArgs(): the arguments of git push, or the error.
determinePushArgs(remotes) ==
    IF upstream THEN [args |-> << >>, error |-> "NONE"]
    ELSE IF remotes = {} THEN [args |-> << >>, error |-> "NO_REMOTE"]
    ELSE IF "origin" \in remotes THEN [args |-> <<"-u", "origin", "main">>, error |-> "NONE"]
    ELSE IF Cardinality(remotes) = 1
    THEN [args |-> <<"-u", CHOOSE r \in remotes : TRUE, "main">>, error |-> "NONE"]
    ELSE [args |-> << >>, error |-> "MULTIPLE_REMOTES"]

RemoteSets == {{}, {"origin"}, {"fork"}, {"fork", "mirror"}}

PushOutcomes == {"SUCCESS", "shallow", "AUTH_FAILED", "UNKNOWN_ERROR"}

\* What git answers to the commands of one push: all goes well, or one thing
\* does not.
PushAnswers ==
    LET ok == [detached |-> FALSE, remotes |-> {"origin"}, pushOut |-> "SUCCESS",
               retryOut |-> "SUCCESS"]
    IN  {ok, [ok EXCEPT !.detached = TRUE]}
            \cup {[ok EXCEPT !.remotes = r] : r \in RemoteSets}
            \cup {[ok EXCEPT !.pushOut = o] : o \in PushOutcomes}
            \cup {[ok EXCEPT !.pushOut = "shallow", !.retryOut = t] :
                      t \in PushOutcomes \ {"AUTH_FAILED"}}

\* push(): the result code, the commands run, and the remote branch and upstream
\* afterwards.  detached, remotes, pushOut and retryOut are what git answers.
push(detached, remotes, pushOut, retryOut) ==
    LET commandEnv == getAuthEnv @@ getMutableEnv
        refresh == Exec(<<"sh", "-c", "git-credentials">>, getMutableEnv)
        branch == Exec(<<"git", "rev-parse", "--abbrev-ref", "HEAD">>, commandEnv)
        up == Exec(<<"git", "rev-parse", "--abbrev-ref", "@{upstream}">>, getMutableEnv)
        rem == Exec(<<"git", "remote">>, getMutableEnv)
        strategy == determinePushArgs(remotes)
        send == Exec(<<"git", "push">> \o strategy.args, commandEnv)
        deepen == Exec(<<"git", "fetch", "--deepen", "100">>, commandEnv)
        probe == IF upstream THEN <<refresh, branch, up>> ELSE <<refresh, branch, up, rem>>
        same == [remote |-> remote, upstream |-> upstream]
        sent == [remote |-> head, upstream |-> upstream \/ strategy.args # << >>]
    IN  IF ~pushToken
        THEN [code |-> "AUTH_FAILED", log |-> << >>, repo |-> same]
        ELSE IF detached
        THEN [code |-> "UNKNOWN_ERROR", log |-> <<refresh, branch>>, repo |-> same]
        ELSE IF strategy.error # "NONE"
        THEN [code |-> strategy.error, log |-> probe, repo |-> same]
        ELSE IF pushOut = "shallow"
        THEN [code |-> IF retryOut = "shallow" THEN "SHALLOW_PUSH_FAILED" ELSE retryOut,
              log |-> probe \o <<send, deepen, send>>,
              repo |-> IF retryOut = "SUCCESS" THEN sent ELSE same]
        ELSE [code |-> pushOut, log |-> probe \o <<send>>,
              repo |-> IF pushOut = "SUCCESS" THEN sent ELSE same]

GhOutcomes == {"SUCCESS", "GH_NOT_AVAILABLE", "NOT_GITHUB_REMOTE", "UNKNOWN_ERROR"}

\* createPr(title, body, baseBranch): pushes first, then gh pr create, which fails
\* when the branch already has a pull request.
createPr(title, baseBranch, pushed, ghOut) ==
    LET commandEnv == ("GH_PROMPT_DISABLED" :> "1") @@ getAuthEnv @@ getMutableEnv
        args == <<"gh", "pr", "create", "--title", title, "--body", "">>
                    \o (IF baseBranch = "" THEN << >> ELSE <<"--base", baseBranch>>)
        create == Exec(args, commandEnv)
        view == Exec(<<"gh", "pr", "view", "--json", "url", "--jq", ".url">>, commandEnv)
        out == IF ghOut = "SUCCESS" /\ pullRequests > 0 THEN "UNKNOWN_ERROR" ELSE ghOut
    IN  IF pushed.code # "SUCCESS"
        THEN [code |-> pushed.code, log |-> pushed.log, prs |-> pullRequests]
        ELSE IF out # "SUCCESS"
        THEN [code |-> out, log |-> pushed.log \o <<create>>, prs |-> pullRequests]
        ELSE [code |-> "SUCCESS", log |-> pushed.log \o <<create, view>>,
              prs |-> pullRequests + 1]

\* What a run of a routed command added to what its earlier runs produced.
Produced(c, commits, pushes, prs) ==
    [effects EXCEPT ![c] = [commits |-> @.commits + commits, pushes |-> @.pushes + pushes,
                            prs |-> @.prs + prs]]

gitFrame ==
    <<epVars, rtVars, migVars, vpsVars, hubVars, runVars, actVars, jobVars, sseVars,
      svcVars>>

\* The agent changes files of the workspace.
AgentEdits ==
    /\ head < MaxCommits
    /\ \E f \in WorkspaceFiles : f \notin worktree /\ worktree' = worktree \cup {f}
    /\ UNCHANGED <<gitIdentity, pushToken, tracked, index, head, remote, upstream,
                   pullRequests, execLog, gitResult, effects, ran, gitFrame>>

\* What git answers to the commands of one commit: all goes well, or one thing
\* does not.
CommitAnswers ==
    {[addOk |-> TRUE, diffOk |-> TRUE, commitOut |-> o] :
        o \in {"SUCCESS", "MERGE_CONFLICT", "REPO_BUSY", "UNKNOWN_ERROR"}}
    \cup {[addOk |-> FALSE, diffOk |-> TRUE, commitOut |-> "SUCCESS"],
          [addOk |-> TRUE, diffOk |-> FALSE, commitOut |-> "SUCCESS"]}

\* The client's commit command runs: the first time or as a retry.
GitCommit ==
    /\ head < MaxCommits
    /\ \E includeUntracked \in BOOLEAN : \E files \in {<< >>, <<"new.ts">>} :
       \E a \in CommitAnswers :
        LET r == commit("feat: change", includeUntracked, files, a.addOk, a.diffOk,
                        a.commitOut)
        IN  /\ tracked' = r.repo.tracked
            /\ worktree' = r.repo.worktree
            /\ index' = r.repo.index
            /\ head' = r.repo.head
            /\ execLog' = r.log
            /\ gitResult' = r.code
            /\ ran' = "commit"
            /\ effects' = Produced("commit", r.repo.head - head, head - head, head - head)
            /\ UNCHANGED <<gitIdentity, pushToken, remote, upstream, pullRequests, gitFrame>>

\* The client's push command runs: the first time or as a retry.
GitPush ==
    \E a \in PushAnswers :
        LET r == push(a.detached, a.remotes, a.pushOut, a.retryOut)
        IN  /\ remote' = r.repo.remote
            /\ upstream' = r.repo.upstream
            /\ execLog' = r.log
            /\ gitResult' = r.code
            /\ ran' = "push"
            /\ effects' = Produced("push", head - head,
                                   IF r.repo.remote # remote THEN 1 ELSE head - head,
                                   head - head)
            /\ UNCHANGED <<gitIdentity, pushToken, tracked, worktree, index, head,
                           pullRequests, gitFrame>>

\* What git and gh answer to the commands of one create-PR: all goes well, or
\* one thing does not.
PrAnswers ==
    {[push |-> a, ghOut |-> "SUCCESS"] : a \in PushAnswers}
    \cup {[push |-> CHOOSE a \in PushAnswers :
                        /\ ~a.detached
                        /\ a.remotes = {"origin"}
                        /\ a.pushOut = "SUCCESS"
                        /\ a.retryOut = "SUCCESS",
           ghOut |-> o] : o \in GhOutcomes}

\* The client's create-PR command runs: the first time or as a retry.
GitCreatePr ==
    \E a \in PrAnswers : \E baseBranch \in {"", "main"} :
        LET p == push(a.push.detached, a.push.remotes, a.push.pushOut, a.push.retryOut)
            r == createPr("Change", baseBranch, p, a.ghOut)
        IN  /\ remote' = p.repo.remote
            /\ upstream' = p.repo.upstream
            /\ pullRequests' = r.prs
            /\ execLog' = r.log
            /\ gitResult' = r.code
            /\ ran' = "createPr"
            /\ effects' = Produced("createPr", head - head,
                                   IF p.repo.remote # remote THEN 1 ELSE head - head,
                                   r.prs - pullRequests)
            /\ UNCHANGED <<gitIdentity, pushToken, tracked, worktree, index, head,
                           gitFrame>>

NextGit == AgentEdits \/ GitCommit \/ GitPush \/ GitCreatePr

NextCommit == AgentEdits \/ GitCommit

\* ---------------------------------------------------------------------------
\* resolveRun: manual resolution of an automation run
\* ---------------------------------------------------------------------------

MaxRunEvents == 2

RunIds == {"run-1", "run-2", "nonexistent"}

Orgs == {"org-1", "org-other"}

RunStatuses == {"queued", "enriching", "ready", "running", "succeeded", "failed",
                "timed_out", "needs_human"}

TERMINAL_STATUSES == {"succeeded", "failed", "timed_out", "needs_human"}

ResolvableStatuses_All == RunStatuses

ResolvableStatuses == {"needs_human", "failed", "timed_out"}

ResolutionOutcomes == {"succeeded", "failed"}

NoRun == [organizationId |-> "", status |-> "", statusReason |-> << >>, completedAt |-> ""]

makeRun(org) ==
    [organizationId |-> org, status |-> "queued", statusReason |-> << >>,
     completedAt |-> "null"]

findById(runId) == IF runId \in DOMAIN runs THEN runs[runId] ELSE NoRun

\* The status a worker gives the run next.
NextStatuses(status) ==
    CASE status = "queued" -> {"enriching"}
      [] status = "enriching" -> {"ready", "failed"}
      [] status = "ready" -> {"running"}
      [] status = "running" -> TERMINAL_STATUSES
      [] OTHER -> {}

InitRun ==
    /\ runs = [id \in {"run-1"} |-> makeRun("org-1")]
           @@ [id \in {"run-2"} |-> makeRun("org-other")]
    /\ runEvents = << >>
    /\ outbox = << >>
    /\ resolved = [called |-> FALSE, runId |-> "", orgId |-> "", outcome |-> "",
                   before |-> NoRun, result |-> "", updated |-> FALSE,
                   untouched |-> TRUE]

\* enqueueRunNotification(organizationId, runId, status)
enqueueRunNotification(box, organizationId, runId, status) ==
    IF status \notin TERMINAL_STATUSES
    THEN box
    ELSE Append(box, [organizationId |-> organizationId, runId |-> runId,
                      status |-> status])

\* resolveRun({runId, orgId, userId, outcome, reason}): what it returns or throws,
\* and the rows, audit events and notifications afterwards.
resolveRun(runId, orgId, userId, outcome, reason) ==
    LET run == findById(runId)
        same == [updated |-> FALSE, runs |-> runs, runEvents |-> runEvents,
                 outbox |-> outbox]
        res == [run EXCEPT !.status = outcome,
                           !.statusReason = <<"manual_resolution", reason>>,
                           !.completedAt = IF @ = "null" THEN "now" ELSE @]
    IN  IF outcome \notin ResolutionOutcomes
        THEN [result |-> "Invalid resolution outcome"] @@ same
        ELSE IF run = NoRun \/ run.organizationId # orgId
        THEN [result |-> "null"] @@ same
        ELSE IF run.status \notin ResolvableStatuses
        THEN [result |-> "RunNotResolvableError"] @@ same
        ELSE [result |-> "run",
              updated |-> TRUE,
              runs |-> [runs EXCEPT ![runId] = res],
              runEvents |-> Append(runEvents,
                                   [runId |-> runId, type |-> "manual_resolution",
                                    from |-> run.status, to |-> outcome,
                                    userId |-> userId]),
              outbox |-> enqueueRunNotification(outbox, run.organizationId, runId,
                                                outcome)]

runFrame ==
    <<epVars, rtVars, migVars, vpsVars, hubVars, gitVars, actVars, jobVars, sseVars,
      svcVars>>

\* A worker moves a run along.
RunAdvances ==
    \E id \in DOMAIN runs : \E s \in NextStatuses(runs[id].status) :
    \E done \in {"null", "earlier"} :
        /\ runs' = [runs EXCEPT ![id].status = s,
                                ![id].completedAt =
                                    IF s \in TERMINAL_STATUSES THEN done ELSE @]
        /\ UNCHANGED <<runEvents, outbox, resolved, runFrame>>

\* A user of an organization resolves a run.
ResolveRun ==
    /\ Len(runEvents) < MaxRunEvents
    /\ \E runId \in RunIds : \E orgId \in Orgs :
       \E outcome \in ResolutionOutcomes \cup {"needs_human"} :
          LET r == resolveRun(runId, orgId, "user-1", outcome, "resolved")
          IN  /\ runs' = r.runs
              /\ runEvents' = r.runEvents
              /\ outbox' = r.outbox
              /\ resolved' = [called |-> TRUE, runId |-> runId, orgId |-> orgId,
                              outcome |-> outcome, before |-> findById(runId),
                              result |-> r.result, updated |-> r.updated,
                              untouched |-> /\ r.runs = runs
                                            /\ r.runEvents = runEvents
                                            /\ r.outbox = outbox]
              /\ UNCHANGED runFrame

NextRun == RunAdvances \/ ResolveRun

\* ---------------------------------------------------------------------------
\* Actions framework: invoke, approve, deny and the expiry sweeper
\* ---------------------------------------------------------------------------

MaxInvocations == 2

MaxActTicks == 3

SWEEP_INTERVAL_MS == 60000

\* Approval deadline of a write action: 5 minutes.
approvalTimeoutMs == 5 * SWEEP_INTERVAL_MS

InvocationIds == 1..MaxInvocations

Risks == {"read", "write", "danger"}

Roles == {"owner", "admin", "member"}

ActionOrgs == {"org-1", "org-other"}

NoApprover == [role |-> "", at |-> MaxActTicks - MaxActTicks]

InitAct ==
    /\ invocations = << >>
    /\ trail = << >>
    /\ executed = << >>
    /\ actNow = MaxActTicks - MaxActTicks
    /\ sinceSweep = MaxActTicks - MaxActTicks

\* invokeAction(input): danger is denied, read approved, write pending with a
\* deadline.
invokeAction(risk) ==
    [risk |-> risk,
     organizationId |-> "org-1",
     status |-> CASE risk = "danger" -> "denied"
                  [] risk = "read" -> "approved"
                  [] OTHER -> "pending",
     expiresAt |-> IF risk = "write" THEN actNow + approvalTimeoutMs
                   ELSE MaxActTicks - MaxActTicks,
     approvedBy |-> NoApprover]

approveAction_NoExpiry(inv, orgId, role) ==
    IF inv.organizationId # orgId THEN "ActionNotFoundError"
    ELSE IF inv.status # "pending" THEN "ActionConflictError"
    ELSE "approved"

\* approveAction(id, orgId, userId): validates pending, not expired and the
\* organization.
approveAction(inv, orgId, role) ==
    IF inv.organizationId # orgId THEN "ActionNotFoundError"
    ELSE IF inv.status # "pending" THEN "ActionConflictError"
    ELSE IF inv.expiresAt <= actNow THEN "ActionExpiredError"
    ELSE "approved"

\* denyAction(id, orgId, userId): validates pending and the organization.
denyAction(inv, orgId) ==
    IF inv.organizationId # orgId THEN "ActionNotFoundError"
    ELSE IF inv.status # "pending" THEN "ActionConflictError"
    ELSE "denied"

\* The row of invocation id written: inserted when new, updated otherwise.
Put(rows, id, r) == IF id > Len(rows) THEN Append(rows, r) ELSE [rows EXCEPT ![id] = r]

\* markExecuting, adapter.execute, then markCompleted or markFailed.
Execute(id, inv, statuses, ok) ==
    LET end == IF ok THEN "completed" ELSE "failed"
        calls == IF id > Len(executed) THEN MaxActTicks - MaxActTicks ELSE executed[id]
    IN  /\ invocations' = Put(invocations, id, [inv EXCEPT !.status = end])
        /\ trail' = Put(trail, id, statuses \o <<"executing", end>>)
        /\ executed' = Put(executed, id, calls + 1)

actFrame ==
    <<epVars, rtVars, migVars, vpsVars, hubVars, gitVars, runVars, jobVars, sseVars,
      svcVars>>

\* POST /invoke: the agent invokes an action of some risk.
Invoke ==
    /\ Len(invocations) < MaxInvocations
    /\ \E risk \in Risks : \E ok \in BOOLEAN :
          LET id == Len(invocations) + 1
              inv == invokeAction(risk)
          IN  /\ IF risk = "read"
                 THEN Execute(id, inv, <<inv.status>>, ok)
                 ELSE /\ invocations' = Append(invocations, inv)
                      /\ trail' = Append(trail, <<inv.status>>)
                      /\ executed' = Append(executed, MaxActTicks - MaxActTicks)
              /\ UNCHANGED <<actNow, sinceSweep, actFrame>>

\* POST /invocations/:id/approve by a user of some role and organization.
Approve ==
    \E id \in DOMAIN invocations : \E role \in Roles : \E orgId \in ActionOrgs :
    \E ok \in BOOLEAN :
        LET inv == invocations[id]
            answer == approveAction(inv, orgId, role)
        IN  /\ role \in {"admin", "owner"}
            /\ answer = "approved"
            /\ Execute(id, [inv EXCEPT !.approvedBy = [role |-> role, at |-> actNow]],
                       Append(trail[id], "approved"), ok)
            /\ UNCHANGED <<actNow, sinceSweep, actFrame>>

\* POST /invocations/:id/deny by a user of some role and organization.
Deny ==
    \E id \in DOMAIN invocations : \E role \in Roles : \E orgId \in ActionOrgs :
        /\ role \in {"admin", "owner"}
        /\ denyAction(invocations[id], orgId) = "denied"
        /\ invocations' = [invocations EXCEPT ![id].status = "denied"]
        /\ trail' = [trail EXCEPT ![id] = Append(@, "denied")]
        /\ UNCHANGED <<executed, actNow, sinceSweep, actFrame>>

\* expirePendingInvocations(now): pending becomes expired where expiresAt <= now.
expirePendingInvocations(at) ==
    {id \in DOMAIN invocations :
        invocations[id].status = "pending" /\ invocations[id].expiresAt <= at}

\* The sweeper's interval fires.
Sweep ==
    /\ sinceSweep >= SWEEP_INTERVAL_MS
    /\ LET overdue == expirePendingInvocations(actNow)
       IN  /\ invocations' = [id \in DOMAIN invocations |->
                                 IF id \in overdue
                                 THEN [invocations[id] EXCEPT !.status = "expired"]
                                 ELSE invocations[id]]
           /\ trail' = [id \in DOMAIN trail |->
                           IF id \in overdue THEN Append(trail[id], "expired") ELSE trail[id]]
    /\ sinceSweep' = MaxActTicks - MaxActTicks
    /\ UNCHANGED <<executed, actNow, actFrame>>

ActTickMs == approvalTimeoutMs \div 2

\* Time passes; the sweeper is late by less than two ticks.
ActTick ==
    /\ actNow < MaxActTicks * ActTickMs
    /\ sinceSweep < SWEEP_INTERVAL_MS + ActTickMs
    /\ actNow' = actNow + ActTickMs
    /\ sinceSweep' = sinceSweep + ActTickMs
    /\ UNCHANGED <<invocations, trail, executed, actFrame>>

NextAct == Invoke \/ Approve \/ Deny \/ Sweep \/ ActTick

\* ---------------------------------------------------------------------------
\* Session expiry: the delayed jobs that trigger the migration
\* ---------------------------------------------------------------------------

MaxSchedules == 3

MaxJobTicks == 4

\* 5 minutes of grace
GRACE_MS == 5 * SWEEP_INTERVAL_MS

\* The lifetime the provider gives a sandbox, in the scale of the model.
sandboxLifetimeMs == 3 * GRACE_MS

NoBox == MaxSchedules - MaxSchedules

\* A result of ensureSandbox without the field expiresAt.
NoExpiry == NoBox - GRACE_MS

jobId(sessionId) == <<"session_expiry__", sessionId>>

InitJob ==
    /\ queue = {}
    /\ scheduled = [s \in Sessions |-> NoBox]
    /\ removed = {}
    /\ fired = << >>
    /\ liveBox = [s \in Sessions |-> NoBox]
    /\ pausedBox = [s \in Sessions |-> NoBox]
    /\ boxes = NoBox
    /\ jobNow = NoBox
    /\ readied = [called |-> FALSE, sessionId |-> "s1", recovered |-> FALSE,
                  expiresAt |-> NoExpiry, jobs |-> {}]

\* Queue.add with a jobId: a job whose id is already in the queue is not added.
add(q, job) == IF \E j \in q : j.jobId = job.jobId THEN q ELSE q \cup {job}

\* The pending jobs of an id.
getJob(q, id) == {j \in q : j.jobId = id}

scheduleSessionExpiry_NoRemove(q, sessionId, no, sandbox, expiresAt) ==
    add(q, [jobId |-> jobId(sessionId), sessionId |-> sessionId, no |-> no,
            sandbox |-> sandbox, runAt |-> expiresAt - GRACE_MS])

\* scheduleSessionExpiry(): removes the existing job of the session, then adds
\* the new one, delayed until expiresAt - GRACE_MS.
scheduleSessionExpiry(q, sessionId, no, sandbox, expiresAt) ==
    add(q \ getJob(q, jobId(sessionId)),
        [jobId |-> jobId(sessionId), sessionId |-> sessionId, no |-> no,
         sandbox |-> sandbox, runAt |-> expiresAt - GRACE_MS])

\* The result of provider.ensureSandbox() as far as the expiry is concerned: a
\* created sandbox comes with expiresAt, now plus the provider's lifetime; a
\* recovered one comes with expiresAt when the provider puts it into the result
\* (carries), which VPSProvider does not.
ensureSandboxResult(live, paused, carries) ==
    LET created == live = NoBox /\ paused = NoBox
    IN  [sandbox |-> IF live # NoBox THEN live ELSE IF paused # NoBox THEN paused
                     ELSE boxes + 1,
         recovered |-> ~created,
         expiresAt |-> IF created \/ carries THEN jobNow + sandboxLifetimeMs
                       ELSE NoExpiry]

\* ensureRuntimeReady() as far as the queue sees it: the sandbox the provider
\* gives (the live one, the paused one resumed, or a new one) and the job, which
\* is scheduled when the result has an expiresAt to schedule it at.
EnsureRuntimeReadySchedules(s, q, live, paused, carries) ==
    LET result == ensureSandboxResult(live, paused, carries)
        timed == result.expiresAt # NoExpiry
        q2 == IF timed
              THEN scheduleSessionExpiry(q, s, scheduled[s] + 1, result.sandbox,
                                         result.expiresAt)
              ELSE q
    IN  /\ liveBox' = [liveBox EXCEPT ![s] = result.sandbox]
        /\ pausedBox' = [pausedBox EXCEPT ![s] = NoBox]
        /\ boxes' = IF result.recovered THEN boxes ELSE boxes + 1
        /\ scheduled' = IF timed THEN [scheduled EXCEPT ![s] = @ + 1] ELSE scheduled
        /\ queue' = q2
        /\ removed' = removed \cup {<<j.sessionId, j.no>> : j \in q \ q2}
        /\ readied' = [called |-> TRUE, sessionId |-> s, recovered |-> result.recovered,
                       expiresAt |-> result.expiresAt,
                       jobs |-> {j.runAt : j \in getJob(q2, jobId(s))}]

jobFrame ==
    <<epVars, rtVars, migVars, vpsVars, hubVars, gitVars, runVars, actVars, sseVars,
      svcVars>>

\* A client connects, reconnects or resumes the session.
EnsureSchedules ==
    \E s \in Sessions :
        /\ scheduled[s] < MaxSchedules
        /\ \E carries \in BOOLEAN :
               EnsureRuntimeReadySchedules(s, queue, liveBox[s], pausedBox[s], carries)
        /\ UNCHANGED <<fired, jobNow, jobFrame>>

MigrationOutcomes == {"replaced", "paused", "stopped", "failed"}

\* A job whose delay has passed fires and the migration runs.
ExpiryFires ==
    \E j \in queue : \E outcome \in MigrationOutcomes :
        /\ j.runAt <= jobNow
        /\ outcome = "replaced" => scheduled[j.sessionId] < MaxSchedules
        /\ fired' = Append(fired, [sessionId |-> j.sessionId, no |-> j.no,
                                   sandbox |-> j.sandbox,
                                   latest |-> scheduled[j.sessionId]])
        /\ CASE outcome = "replaced" ->
                    EnsureRuntimeReadySchedules(j.sessionId, queue \ {j}, NoBox, NoBox, TRUE)
             [] outcome = "failed" ->
                    /\ queue' = queue \ {j}
                    /\ UNCHANGED <<scheduled, removed, liveBox, pausedBox, boxes, readied>>
             [] OTHER ->
                    /\ queue' = queue \ {j}
                    /\ liveBox' = [liveBox EXCEPT ![j.sessionId] = NoBox]
                    /\ pausedBox' = [pausedBox EXCEPT ![j.sessionId] =
                                        IF outcome = "paused" THEN j.sandbox ELSE NoBox]
                    /\ UNCHANGED <<scheduled, removed, boxes, readied>>
        /\ UNCHANGED <<jobNow, jobFrame>>

\* Time passes.
JobTick ==
    /\ jobNow < MaxJobTicks * GRACE_MS
    /\ jobNow' = jobNow + GRACE_MS
    /\ UNCHANGED <<queue, scheduled, removed, fired, liveBox, pausedBox, boxes, readied,
                   jobFrame>>

NextJob == EnsureSchedules \/ ExpiryFires \/ JobTick

\* ---------------------------------------------------------------------------
\* SseClient: heartbeat monitoring and the onDisconnect callback
\* ---------------------------------------------------------------------------

MaxConnects == 3

\* The configured heartbeat timeout.
heartbeatTimeoutMs == 30000

SseTickMs == heartbeatTimeoutMs \div 3

Triggers == {"close", "error", "heartbeat_timeout"}

InitSse ==
    /\ connection = "disconnected"
    /\ connects = MaxConnects - MaxConnects
    /\ sinceFrame = MaxConnects - MaxConnects
    /\ delivered = {}
    /\ onDisconnectCalls = MaxConnects - MaxConnects
    /\ stoppedBy = "none"

handleDisconnect_NoGuard(state, n) == [connection |-> "disconnected", onDisconnectCalls |-> n + 1]

\* The one handler of the three triggers: a client that is already
\* disconnected does nothing; otherwise it stops and onDisconnectCalls onDisconnect.
handleDisconnect(state, n) ==
    IF state = "disconnected"
    THEN [connection |-> state, onDisconnectCalls |-> n]
    ELSE [connection |-> "disconnected", onDisconnectCalls |-> n + 1]

sseFrame ==
    <<epVars, rtVars, migVars, vpsVars, hubVars, gitVars, runVars, actVars, jobVars,
      svcVars>>

\* The owner (SessionRuntime) connects the client.
SseConnect ==
    /\ connection = "disconnected"
    /\ connects < MaxConnects
    /\ connection' = "connected"
    /\ connects' = connects + 1
    /\ sinceFrame' = MaxConnects - MaxConnects
    /\ delivered' = {}
    /\ onDisconnectCalls' = MaxConnects - MaxConnects
    /\ stoppedBy' = "none"
    /\ UNCHANGED sseFrame

\* A frame (data or heartbeat) arrives.
SseFrame ==
    /\ connection = "connected"
    /\ sinceFrame > 0
    /\ sinceFrame' = MaxConnects - MaxConnects
    /\ UNCHANGED <<connection, connects, delivered, onDisconnectCalls, stoppedBy, sseFrame>>

\* Time passes without a frame.
SseTick ==
    /\ connection = "connected"
    /\ sinceFrame < heartbeatTimeoutMs
    /\ sinceFrame' = sinceFrame + SseTickMs
    /\ UNCHANGED <<connection, connects, delivered, onDisconnectCalls, stoppedBy, sseFrame>>

\* The stream closes, the remote reports an error, or the heartbeat timer runs
\* out; the stream may still deliver close and error after the client stopped.
SseTrigger ==
    \E t \in Triggers \ delivered :
        /\ connects > 0
        /\ t = "heartbeat_timeout"
                => connection = "connected" /\ sinceFrame >= heartbeatTimeoutMs
        /\ LET r == handleDisconnect(connection, onDisconnectCalls)
           IN  /\ connection' = r.connection
               /\ onDisconnectCalls' = r.onDisconnectCalls
        /\ delivered' = delivered \cup {t}
        /\ stoppedBy' = IF stoppedBy = "none" THEN t ELSE stoppedBy
        /\ UNCHANGED <<connects, sinceFrame, sseFrame>>

\* The owner onDisconnectCalls disconnect(): a no-op on a disconnected client.
SseDisconnect ==
    /\ connects > 0
    /\ connection' = "disconnected"
    /\ stoppedBy' = IF stoppedBy = "none" THEN "disconnect" ELSE stoppedBy
    /\ UNCHANGED <<connects, sinceFrame, delivered, onDisconnectCalls, sseFrame>>

NextSse == SseConnect \/ SseFrame \/ SseTick \/ SseTrigger \/ SseDisconnect

\* ---------------------------------------------------------------------------
\* Side effects: recordOrReplaySideEffect over the table automation_side_effects
\* ---------------------------------------------------------------------------

\* (organizationId, effectId) of the calls: one effect id in two organizations.
EffectKeys == {<<"org1", "e1">>, <<"org2", "e1">>}

NoRow == [id |-> MaxCallers - MaxCallers, organizationId |-> "none", effectId |-> "none"]
NoCall == [pc |-> "idle", key |-> <<"none", "none">>, row |-> NoRow, replayed |-> FALSE,
           via |-> "none"]

InitFx ==
    /\ sideEffects = {}
    /\ fxCalls = [c \in Callers |-> NoCall]

\* db.query.automationSideEffects.findFirst({where: organizationId and effectId})
findByOrgAndEffectId(organizationId, effectId) ==
    LET found == {r \in sideEffects :
                     r.organizationId = organizationId /\ r.effectId = effectId}
    IN  IF found = {} THEN NoRow ELSE CHOOSE r \in found : TRUE

findSideEffect(organizationId, effectId) == findByOrgAndEffectId(organizationId, effectId)

\* A slip: the table has no unique index, every insert stores a row.
insertSideEffect_NoUniqueIndex(input, dbOk) ==
    IF ~dbOk
    THEN [threw |-> TRUE, rows |-> sideEffects]
    ELSE [threw |-> FALSE, rows |-> sideEffects \cup {input}]

\* db.insert(automationSideEffects).values(input).returning(): the row is stored
\* and returned, or the insert throws: the database failed (~dbOk), or a row of the
\* same organization and effect id exists (the table's unique index).
insertSideEffect(input, dbOk) ==
    IF ~dbOk \/ findByOrgAndEffectId(input.organizationId, input.effectId) # NoRow
    THEN [threw |-> TRUE, rows |-> sideEffects]
    ELSE [threw |-> FALSE, rows |-> sideEffects \cup {input}]

recordSideEffect(input, dbOk) == insertSideEffect(input, dbOk)

fxFrame ==
    <<epVars, rtVars, migVars, vpsVars, hubVars, gitVars, runVars, actVars, jobVars,
      sseVars, billVars>>

\* recordOrReplaySideEffect(input) up to its first await: findSideEffect, and the
\* replay of an existing row.
FxFind ==
    \E c \in Callers : \E key \in EffectKeys :
        /\ fxCalls[c].pc = "idle"
        /\ LET existing == findSideEffect(key[1], key[2])
           IN  fxCalls' = [fxCalls EXCEPT ![c] =
                   IF existing # NoRow
                   THEN [pc |-> "returned", key |-> key, row |-> existing,
                         replayed |-> TRUE, via |-> "found"]
                   ELSE [NoCall EXCEPT !.pc = "recording", !.key = key]]
        /\ UNCHANGED <<sideEffects, fxFrame>>

\* ... the try block: recordSideEffect; the row it stores carries the id the
\* database gives it.
FxRecord ==
    \E c \in Callers : \E dbOk \in BOOLEAN :
        /\ fxCalls[c].pc = "recording"
        /\ LET input == [id |-> c, organizationId |-> fxCalls[c].key[1],
                         effectId |-> fxCalls[c].key[2]]
               res == recordSideEffect(input, dbOk)
           IN  /\ sideEffects' = res.rows
               /\ fxCalls' = [fxCalls EXCEPT ![c] =
                      IF res.threw
                      THEN [@ EXCEPT !.pc = "caught"]
                      ELSE [@ EXCEPT !.pc = "returned", !.row = input,
                                     !.replayed = FALSE, !.via = "inserted"]]
        /\ UNCHANGED fxFrame

\* ... the catch block: findSideEffect again, replay or rethrow.
FxCatch ==
    \E c \in Callers :
        /\ fxCalls[c].pc = "caught"
        /\ LET res == findSideEffect(fxCalls[c].key[1], fxCalls[c].key[2])
           IN  fxCalls' = [fxCalls EXCEPT ![c] =
                   IF res # NoRow
                   THEN [@ EXCEPT !.pc = "returned", !.row = res, !.replayed = TRUE,
                                  !.via = "caught"]
                   ELSE [@ EXCEPT !.pc = "threw"]]
        /\ UNCHANGED <<sideEffects, fxFrame>>

NextFx == FxFind \/ FxRecord \/ FxCatch

\* ---------------------------------------------------------------------------
\* Billing outbox: processOutbox and processEvent
\* ---------------------------------------------------------------------------

maxRetries == 3

EventIds == {"ev1", "ev2"}

NoRetries == maxRetries - maxRetries

PendingBillingEvent == [status |-> "pending", retryCount |-> NoRetries, lastError |-> "none"]

\* What the services answer to one processEvent: the organization has an Autumn
\* customer id; autumnDeductCredits allows, denies or throws; attemptAutoTopUp
\* succeeds; how many sessions enforceCreditsExhausted failed to pause;
\* markEventPosted succeeds.
Answer(customer, deduct, topup, failed, postOk) ==
    [customer |-> customer, deduct |-> deduct, topup |-> topup, failed |-> failed,
     postOk |-> postOk]

\* All goes well, or one answer differs.
BillingAnswers ==
    {Answer(TRUE, "allowed", FALSE, NoRetries, TRUE),
     Answer(FALSE, "allowed", FALSE, NoRetries, TRUE),
     Answer(TRUE, "throws", FALSE, NoRetries, TRUE),
     Answer(TRUE, "allowed", FALSE, NoRetries, FALSE),
     Answer(TRUE, "denied", TRUE, NoRetries, TRUE),
     Answer(TRUE, "denied", FALSE, NoRetries, TRUE),
     Answer(TRUE, "denied", FALSE, NoRetries + 1, TRUE),
     Answer(TRUE, "denied", FALSE, NoRetries, FALSE)}

NoAnswer == Answer(FALSE, "none", FALSE, NoRetries, FALSE)

InitBill ==
    /\ billingEvents = [id \in EventIds |-> PendingBillingEvent]
    /\ exhausted = FALSE
    /\ attempt = [called |-> FALSE, id |-> "ev1", answer |-> NoAnswer, steps |-> << >>,
                  before |-> PendingBillingEvent, after |-> PendingBillingEvent]

InitSvc == InitFx /\ InitBill

\* findRetryableEvents(maxRetries, batchSize): the pending events with retries left.
findRetryableEvents ==
    {id \in EventIds : /\ billingEvents[id].status = "pending"
                       /\ billingEvents[id].retryCount < maxRetries}

\* A slip: a failed enforcement is not looked at.
enforcementFailed_Ignored(enforcement) == FALSE

\* if (enforcement.failed > 0) throw
enforcementFailed(enforcement) == enforcement > 0

\* The catch block: updateEventRetry with the next retry count; the event fails for
\* good when the count reaches maxRetries.
updateEventRetry(event, steps, err) ==
    LET retryCount == event.retryCount + 1
        status == IF retryCount >= maxRetries THEN "failed" ELSE "pending"
    IN  [event |-> [status |-> status, retryCount |-> retryCount, lastError |-> err],
         steps |-> Append(steps, "updateEventRetry")]

\* markEventPosted(event.id, result), as the last statement of the try block.
markEventPosted(event, steps, a) ==
    IF a.postOk
    THEN [event |-> [event EXCEPT !.status = "posted"],
          steps |-> Append(steps, "markEventPosted")]
    ELSE updateEventRetry(event, Append(steps, "markEventPosted"), "markEventPosted")

\* processEvent(event): what becomes of the event and the calls made, in order.
processEvent(event, a) ==
    IF ~a.customer
    THEN updateEventRetry(event, <<"findAutumnCustomerId">>, "missing customer id")
    ELSE IF a.deduct = "throws"
    THEN updateEventRetry(event, <<"findAutumnCustomerId", "autumnDeductCredits">>,
                          "autumnDeductCredits")
    ELSE IF a.deduct = "allowed"
    THEN markEventPosted(event, <<"findAutumnCustomerId", "autumnDeductCredits">>, a)
    ELSE IF a.topup
    THEN [event |-> event,
          steps |-> <<"findAutumnCustomerId", "autumnDeductCredits", "attemptAutoTopUp">>]
    ELSE LET enforced == <<"findAutumnCustomerId", "autumnDeductCredits",
                           "attemptAutoTopUp", "markOrgBillingExhausted",
                           "enforceCreditsExhausted">>
         IN  IF enforcementFailed(a.failed)
             THEN updateEventRetry(event, enforced, "failed to pause sessions")
             ELSE markEventPosted(event, enforced, a)

billFrame ==
    <<epVars, rtVars, migVars, vpsVars, hubVars, gitVars, runVars, actVars, jobVars,
      sseVars, fxVars>>

\* processOutbox(): one event of the batch goes through processEvent.
ProcessOutbox ==
    \E id \in findRetryableEvents : \E a \in BillingAnswers :
        LET res == processEvent(billingEvents[id], a)
        IN  /\ billingEvents' = [billingEvents EXCEPT ![id] = res.event]
            /\ exhausted' = (exhausted \/ \E i \in DOMAIN res.steps :
                                             res.steps[i] = "markOrgBillingExhausted")
            /\ attempt' = [called |-> TRUE, id |-> id, answer |-> a, steps |-> res.steps,
                           before |-> billingEvents[id], after |-> res.event]
            /\ UNCHANGED billFrame

\* The metering records a new event under the id of one that is settled.
RecordBillingEvent ==
    \E id \in EventIds :
        /\ billingEvents[id].status # "pending"
        /\ billingEvents' = [billingEvents EXCEPT ![id] = PendingBillingEvent]
        /\ UNCHANGED <<exhausted, attempt, billFrame>>

NextBill == ProcessOutbox \/ RecordBillingEvent

InitExt == InitGit /\ InitRun /\ InitAct /\ InitJob /\ InitSse /\ InitSvc

Init == InitEP /\ InitRT /\ InitMig /\ InitVps /\ InitHub /\ InitExt

SpecRT == Init /\ [][NextRT]_vars

InitAnyProvider == InitEP /\ InitRT /\ InitProviders /\ InitVps /\ InitHub /\ InitExt

InitAnyHub == InitEP /\ InitRT /\ InitMig /\ InitVps /\ InitHubs /\ InitExt

InitAnyGit == InitEP /\ InitRT /\ InitMig /\ InitVps /\ InitHub /\ InitGits /\ InitRun /\ InitAct /\ InitJob /\ InitSse /\ InitSvc

SpecGit == InitAnyGit /\ [][NextGit]_vars

InitAnyIdentity == InitEP /\ InitRT /\ InitMig /\ InitVps /\ InitHub /\ InitIdentities /\ InitRun /\ InitAct /\ InitJob /\ InitSse /\ InitSvc

SpecCommit == InitAnyIdentity /\ [][NextCommit]_vars

SpecRun == Init /\ [][NextRun]_vars

SpecAct == Init /\ [][NextAct]_vars

SpecJob == Init /\ [][NextJob]_vars

SpecSse == Init /\ [][NextSse]_vars

SpecFx == Init /\ [][NextFx]_vars

SpecBill == Init /\ [][NextBill]_vars

SpecMig == InitAnyProvider /\ [][NextMig]_vars

SpecMigs == InitAnyProvider /\ [][NextMigs]_vars

SpecCold == InitAnyProvider /\ [][NextCold]_vars

SpecVps == Init /\ [][NextVps]_vars
SpecBox == Init /\ [][NextBox]_vars

SpecHub == InitAnyHub /\ [][NextHub]_vars

(***************************************************************************)
(* Steps of the processor.  SpecEP and SpecErr observe each step (its      *)
(* input and its broadcasts), SpecTurn counts the broadcasts of a prompt,  *)
(* SpecStale follows message ids from one prompt to the next.              *)
(* The clock stands still in these specifications: a tool progress        *)
(* heartbeat adds `status` broadcasts only and changes nothing else.       *)
(***************************************************************************)
ObserveStep(e, r) ==
    /\ lastEvent' = e
    /\ emitted' = r.out
    /\ flip' = 1 - flip

\* The hub hands one SSE event to process().
Process ==
    \E e \in ToolFocusEvents :
        LET r == process(Fields, e, now)
        IN  Store(r) /\ ObserveStep(e, r) /\ UNCHANGED <<rtVars, envVars, now, slotVars, doneVars, beatVars, turnVars, staleVars>>

\* The hub dispatches a new user prompt.
ResetForNewPrompt ==
    LET r == resetForNewPrompt(Fields)
    IN  /\ Store(r) /\ ObserveStep(Ev("resetForNewPrompt"), r)
        /\ UNCHANGED <<rtVars, envVars, now, slotVars, doneVars, beatVars, turnVars, staleVars>>

\* The hub cancels the running prompt.
ClearCurrentAssistantMessageId ==
    LET r == clearCurrentAssistantMessageId(Fields)
    IN  /\ Store(r) /\ ObserveStep(Ev("clearCurrentAssistantMessageId"), r)
        /\ UNCHANGED <<rtVars, envVars, now, slotVars, doneVars, beatVars, turnVars, staleVars>>

NextEP == Process \/ ResetForNewPrompt \/ ClearCurrentAssistantMessageId

SpecEP == Init /\ [][NextEP]_vars

ProcessErr ==
    \E e \in ErrorFocusEvents :
        LET r == process(Fields, e, now)
        IN  Store(r) /\ ObserveStep(e, r) /\ UNCHANGED <<rtVars, envVars, now, slotVars, doneVars, beatVars, turnVars, staleVars>>

NextErr == ProcessErr \/ ResetForNewPrompt \/ ClearCurrentAssistantMessageId

SpecErr == Init /\ [][NextErr]_vars

ProcessTurn ==
    \E e \in TurnEvents :
        LET r == process(Fields, e, now)
        IN  Store(r) /\ ObserveTurn(e, r) /\ UNCHANGED <<rtVars, envVars, now, slotVars, doneVars, beatVars, stepVars, staleVars>>

ResetTurn ==
    /\ Store(resetForNewPrompt(Fields))
    /\ scen' = NoScen
    /\ announced' = {}
    /\ reannounced' = {}
    /\ ended' = {}
    /\ reended' = {}
    /\ UNCHANGED <<rtVars, envVars, now, slotVars, doneVars, beatVars, stepVars, staleVars>>

\* A cancel ends the prompt for the observers as a reset does.
ClearTurn ==
    /\ Store(clearCurrentAssistantMessageId(Fields))
    /\ scen' = NoScen
    /\ announced' = {}
    /\ reannounced' = {}
    /\ ended' = {}
    /\ reended' = {}
    /\ UNCHANGED <<rtVars, envVars, now, slotVars, doneVars, beatVars, stepVars, staleVars>>

NextTurn == ProcessTurn \/ ResetTurn \/ ClearTurn

SpecTurn == Init /\ [][NextTurn]_vars

ProcessStale ==
    \E e \in TurnEvents :
        LET r == process(Fields, e, now)
        IN  Store(r) /\ ObserveStale(e, r) /\ UNCHANGED <<rtVars, envVars, now, slotVars, doneVars, beatVars, stepVars, turnVars>>

ResetStale ==
    /\ Store(resetForNewPrompt(Fields))
    /\ stale' = carried
    /\ carried' = {}
    /\ fresh' = TRUE
    /\ firstSeen' = NULL
    /\ userTextSeen' = FALSE
    /\ userLeak' = FALSE
    /\ UNCHANGED <<rtVars, envVars, now, slotVars, doneVars, beatVars, stepVars, turnVars>>

ClearStale ==
    /\ Store(clearCurrentAssistantMessageId(Fields))
    /\ UNCHANGED <<rtVars, envVars, now, slotVars, doneVars, beatVars, stepVars, turnVars, staleVars>>

NextStale == ProcessStale \/ ResetStale \/ ClearStale

SpecStale == Init /\ [][NextStale]_vars

ProcessSlot ==
    \E e \in TurnEvents :
        LET r == process(Fields, e, now)
        IN  /\ Store(r) /\ ObserveSlot(e, r)
            /\ UNCHANGED <<rtVars, envVars, now, doneVars, beatVars, stepVars, turnVars, staleVars>>

ResetSlot ==
    /\ Store(resetForNewPrompt(Fields))
    /\ toolSeen' = FALSE
    /\ keptUntilReset' = NULL
    /\ UNCHANGED <<rtVars, envVars, now, doneVars, beatVars, stepVars, turnVars, staleVars>>

ClearSlot ==
    /\ Store(clearCurrentAssistantMessageId(Fields))
    /\ toolSeen' = FALSE
    /\ keptUntilReset' = NULL
    /\ UNCHANGED <<rtVars, envVars, now, doneVars, beatVars, stepVars, turnVars, staleVars>>

NextSlot == ProcessSlot \/ ResetSlot \/ ClearSlot

SpecSlot == Init /\ [][NextSlot]_vars

\* message_complete broadcasts per message id since the reset.
ObserveDone(e, r) ==
    /\ completedIds' = completedIds \cup Ids(r.out, "message_complete")
    /\ recompleted' = recompleted \cup (completedIds \cap Ids(r.out, "message_complete"))
                                  \cup Twice(r.out, "message_complete", "messageId")

ProcessDone ==
    \E e \in TurnEvents :
        LET r == process(Fields, e, now)
        IN  /\ Store(r) /\ ObserveDone(e, r)
            /\ UNCHANGED <<rtVars, envVars, now, stepVars, turnVars, staleVars, slotVars,
                           beatVars>>

ResetDone ==
    /\ Store(resetForNewPrompt(Fields))
    /\ completedIds' = {}
    /\ recompleted' = {}
    /\ UNCHANGED <<rtVars, envVars, now, stepVars, turnVars, staleVars, slotVars,
                   beatVars>>

NextDone == ProcessDone \/ ResetDone

SpecDone == Init /\ [][NextDone]_vars

\* The inputs of SpecBeat: two tools starting, updating and finishing, idle events and
\* server heartbeats, while time passes.
BeatEvents ==
    { Msg(m, FALSE) : m \in AssistantIds } \cup {SessionIdle, ServerHeartbeat}
    \cup { Tool(p, st, TRUE) : p \in ToolParts, st \in {"running", "completed"} }

BeatStepMs == toolProgressHeartbeatMs \div 3
Beaten(out) == Parts(out, "status")

\* Progress heartbeats per tool call: when the last one was, and whether one came
\* sooner than the threshold after it, or twice within one event.
ObserveBeat(e, r) ==
    /\ lastBeat' = [c \in ToolCalls |-> IF c \in Beaten(r.out) THEN now ELSE lastBeat[c]]
    /\ beats' = [c \in ToolCalls |->
                   IF c \in Beaten(r.out) /\ beats[c] < 2 THEN beats[c] + 1 ELSE beats[c]]
    /\ earlyBeat' = \/ earlyBeat
                    \/ Twice(r.out, "status", "partId") # {}
                    \/ \E c \in Beaten(r.out) :
                          beats[c] > 0 /\ now - lastBeat[c] < toolProgressHeartbeatMs

ProcessBeat ==
    \E e \in BeatEvents :
        LET r == process(Fields, e, now)
        IN  /\ Store(r) /\ ObserveBeat(e, r)
            /\ UNCHANGED <<rtVars, envVars, now, stepVars, turnVars, staleVars, slotVars,
                           doneVars>>

\* Time passes between two events.
BeatTick ==
    /\ now < StartTime + MaxBeatTicks * BeatStepMs
    /\ now' = now + BeatStepMs
    /\ UNCHANGED <<procVars, rtVars, envVars, stepVars, turnVars, staleVars, slotVars,
                   doneVars, beatVars>>

NextBeat == ProcessBeat \/ BeatTick

SpecBeat == Init /\ [][NextBeat]_vars

(***************************************************************************)
(* Properties.                                                             *)
(***************************************************************************)
Waiting(c) == callers[c].state = "waiting"
Emits(out, type) == \E i \in 1..Len(out) : out[i].type = type
RunningNow == \E c \in DOMAIN toolStates : toolStates[c].status = "running"

\* C1: while calls to ensureRuntimeReady() are unresolved there is one provisioning
\* attempt in flight at most, every unresolved caller holds the promise of that one
\* attempt (the cached one), and an attempt calls the provider's ensureSandbox once
\* at most, exactly once when it has finished.
C1_OneProvisioningAttempt ==
    /\ \A a, b \in Attempts : InFlight(a) /\ InFlight(b) => a = b
    /\ \A c \in Callers :
          Waiting(c) => /\ callers[c].promise = ensureReadyPromise
                        /\ ensureReadyPromise # NoAttempt
                        /\ InFlight(ensureReadyPromise)
    /\ \A a \in Attempts : /\ providerCalls[a] <= 1
                           /\ attempts[a] = "done" => providerCalls[a] = 1
                           /\ attempts[a] \in {"idle", "waitForMigrationLockRelease",
                                               "loadSessionContext", "ensureSandbox"}
                                 => providerCalls[a] = 0

\* Two callers or more wait on the one attempt, which has called the provider.
C1_Witness ==
    \E a \in Attempts :
        /\ InFlight(a)
        /\ providerCalls[a] = 1
        /\ Cardinality({ c \in Callers : Waiting(c) /\ callers[c].promise = a }) >= 2
        /\ \A b \in Attempts \ {a} : providerCalls[b] = 0

\* C2: a step that broadcasts message_complete starts in a state where no tracked
\* tool call is running.
C2_NoCompleteWhileToolRunning ==
    [][Emits(emitted', "message_complete") /\ flip' # flip => ~RunningNow]_vars

\* An idle event arrived while a tool call was running and nothing was broadcast.
C2_Witness ==
    /\ IsIdleEvent(lastEvent)
    /\ emitted = <<>>
    /\ currentAssistantMessageId # NULL
    /\ RunningNow

\* C3: tool call running, idle, the tool call completes, then one idle event or
\* more: exactly one message_complete has been broadcast.
C3_OneCompleteAfterReorderedIdle == scen.phase = "after" => scen.n = 1

\* The scenario was followed up to its second idle event after the completion.
C3_Witness == scen.phase = "after" /\ scen.idles = MaxCount /\ scen.n = 1

C5_ToolEndOnce == reended = {}

\* C6: within a prompt no assistant message id is broadcast as `message` a second
\* time.
C6_MessageOncePerTurn == reannounced = {}

\* What the claims call an abort error: the name is AbortError or
\* MessageAbortedError, or a message holds "operation was aborted".
NamedAbort(error) ==
    /\ error.kind = "object"
    /\ \/ error.name = <<"A","b","o","r","t","E","r","r","o","r">>
       \/ error.name = <<"M","e","s","s","a","g","e","A","b","o","r","t","e","d",
                         "E","r","r","o","r">>
       \/ includes(error.message, txtOperationWasAborted)
       \/ includes(error.dataMessage, txtOperationWasAborted)
\* Every cancellation the code knows: the above in any letter case, "signal is
\* aborted", and the bare message "AbortError".
AbortTags == {"abortName", "messageAborted", "operationAborted", "signalString"}
IsErrorEvent(e) ==
    \/ e.type = "session.error"
    \/ e.type = "message.updated" /\ e.role = "assistant" /\ e.err # "none"

\* C7: a session.error or an assistant message.updated whose error is named
\* AbortError or MessageAbortedError, or whose message holds "operation was
\* aborted", broadcasts no error.
C7_AbortErrorsSilent ==
    IsErrorEvent(lastEvent) /\ NamedAbort(ErrorTable[lastEvent.err])
        => ~Emits(emitted, "error")

\* The update that completes the current assistant message carried
\* MessageAbortedError: message_complete was broadcast, error was not.
C7_Witness ==
    /\ lastEvent = MessageUpdated("a1", getOpenCodeSessionId, "messageAborted", TRUE)
    /\ Emits(emitted, "message_complete")
    /\ ~Emits(emitted, "error")

\* C8: every error event of the hub's session that is no cancellation and has a
\* name or a message (a session.error, or an error attached to an assistant
\* message.updated) broadcasts exactly one error.
C8_EveryOtherErrorOnce ==
    (/\ IsErrorEvent(lastEvent)
     /\ ~Dropped(lastEvent)
     /\ lastEvent.err \notin AbortTags
     /\ getOpenCodeErrorMessage(ErrorTable[lastEvent.err]) # Missing)
        => Count(emitted, "error") = 1

\* C9: after resetForNewPrompt(), as long as the events belong to messages other
\* than those of the previous prompt, no broadcast carries an id of the previous
\* prompt and the slot holds none.
C9_NoStaleAssistantId ==
    fresh => carried \cap stale = {} /\ currentAssistantMessageId \notin stale

\* A prompt left an id behind, and the next one broadcast for another message.
C9_Witness ==
    /\ stale # {}
    /\ fresh
    /\ carried # {}
    /\ currentAssistantMessageId \notin {NULL} \cup stale

\* C10: when the first message seen after resetForNewPrompt() is the user's, it is
\* the tracked user message and no message, token or text_part_complete is
\* broadcast for its events.
C10_UserMessageSuppressed ==
    firstSeen \in UserIds
        => /\ currentOpenCodeUserMessageId = firstSeen
           /\ ~userLeak
           /\ firstSeen \notin carried

\* Text parts of the user message were handled, and an assistant message was
\* broadcast afterwards.
C10_Witness ==
    /\ firstSeen \in UserIds
    /\ userTextSeen
    /\ carried # {}
    /\ stale # {}

\* C11: a message completed text-only stays in the slot until resetForNewPrompt()
\* is called (a cancel, which clears the slot, set aside).
C11_KeptUntilReset == keptUntilReset # NULL => currentAssistantMessageId = keptUntilReset

Succeeded(p) == pc[p] = "done"
WithClients(p) == before[p].clients > 0
Connected(p) == before[p].runtime.sse
Created(b) == sandboxes[b].state = "none" /\ sandboxes'[b].state # "none"

\* C12: at most one migration of the session is in progress at a time, over all
\* gateway processes.
C12_OneMigrationAtATime ==
    \A p \in Gateways : \A q \in Gateways : Migrating(p) /\ Migrating(q) => p = q

\* C13: the session is never being migrated while a client-triggered
\* ensureRuntimeReady() is provisioning it.
C13_NeverMigratedAndColdStarted ==
    \A p \in Gateways : \A q \in Gateways : ~(Migrating(p) /\ ColdStarting(q))

\* C14: a migration that began with a client connected to a running session and
\* whose snapshot and create succeeded shows the client running, then migrating,
\* then running, and nothing else.
C14_RunningMigratingRunning ==
    \A p \in Gateways :
        Succeeded(p) /\ WithClients(p) /\ Connected(p) /\ before[p].status = "running"
            => seen = <<"running", "migrating", "running">>

\* The migration with a client went through.
C14_Witness ==
    /\ Succeeded("gw1")
    /\ WithClients("gw1")
    /\ Connected("gw1")
    /\ before["gw1"].status = "running"
    /\ row.sandboxId \notin before["gw1"].boxes

\* C15: a migration that began with no client creates no sandbox and leaves the
\* session `paused` when the provider supports pause, else `stopped`; a sandbox is
\* only ever created while a client is connected.
C15_IdleMigrationCreatesNothing ==
    /\ [](\A p \in Gateways :
            Succeeded(p) /\ ~WithClients(p)
                => /\ Existing = before[p].boxes
                   /\ row.status = IF supportsPause THEN "paused" ELSE "stopped")
    /\ [][(\E b \in SandboxIds : Created(b)) => clients > 0]_vars

\* The idle session was paused; later a client came and a sandbox was created.
C15_Witness ==
    /\ supportsPause
    /\ row.status = "running"
    /\ before["gw1"].clients = 0
    /\ took["gw1"] # NoId
    /\ Existing # before["gw1"].boxes
    /\ clients = 1

\* C16: after a completed migration the row's snapshotId is the snapshot that the
\* migration took, it is not the one from before, and a sandbox is always created
\* from the row's snapshotId.
C16_SnapshotOfThisMigration ==
    /\ [](\A p \in Gateways :
            Succeeded(p)
                => /\ row.snapshotId # NoId
                   /\ row.snapshotId = took[p]
                   /\ row.snapshotId # before[p].snapshotId)
    /\ [][\A b \in SandboxIds : Created(b) => sandboxes'[b].from = row.snapshotId]_vars

\* A second migration completed, replacing the snapshot of the first, and the
\* sandbox in use was created from a snapshot.
C16_Witness ==
    /\ Succeeded("gw1")
    /\ before["gw1"].snapshotId # NoId
    /\ row.snapshotId = took["gw1"]
    /\ \E b \in SandboxIds : sandboxes[b].from # NoId

\* C17: when the snapshot step fails, the old sandbox is still running, the
\* runtime's sandbox and SSE state are as before, and no sandbox was created.
C17_SnapshotFailureLeavesOldSandbox ==
    \A p \in Gateways :
        pc[p] = "aborted" /\ Connected(p)
            => /\ sandboxes[row.sandboxId].state = "running"
               /\ runtime[p] = before[p].runtime
               /\ Existing = before[p].boxes

\* The snapshot of a migration with a client failed.
C17_Witness ==
    /\ pc["gw1"] = "aborted"
    /\ Connected("gw1")
    /\ WithClients("gw1")
    /\ seen[Len(seen)] = "migrating"

Called == last.outcome # "none"
PassedId == last.passed # NoContainerId

\* C18: ensureSandbox called with the id of a sandbox that is not running any more,
\* on a host that answers docker run and docker port, creates a sandbox and
\* returns it.
C18_DeadSandboxReplaced ==
    Called /\ PassedId /\ ~last.alive /\ last.healthy
        => /\ last.outcome = "returned"
           /\ last.fresh
           /\ ~last.recovered

\* C19: ensureSandbox called with the id of a sandbox that is still running
\* returns that sandbox with recovered = true and starts no other.
C19_AliveSandboxRecovered ==
    Called /\ PassedId /\ last.alive
        => /\ last.outcome = "returned"
           /\ last.recovered
           /\ last.sandboxId = last.passed
           /\ ~last.fresh

\* C20: in a run of consecutive failures of the stream the hub reconnects after
\* 1 s, 2 s, 5 s and 10 s, in this order; the fifth failure gives status `error`
\* and no fifth reconnect.
C20_BackoffSequence ==
    /\ Len(attemptedAfter) <= 4
    /\ \A i \in 1..Len(attemptedAfter) : attemptedAfter[i] = <<1000, 2000, 5000, 10000>>[i]
    /\ sse = "waiting" => Len(attemptedAfter) = failures - 1
    /\ hubStatus = "error" <=> failures = 5
    /\ hubStatus = "error" => sse = "down" /\ Len(attemptedAfter) = 4

\* Four reconnects failed one after the other and the hub gave up.
C20_Witness ==
    /\ hubStatus = "error"
    /\ attemptedAfter = <<1000, 2000, 5000, 10000>>
    /\ failures = 5

\* C25: two progress heartbeats of one tool call are at least the threshold (15 s)
\* apart, however many events are processed in between, and one event broadcasts no
\* two heartbeats for one tool call.
C25_OneHeartbeatPerWindow == ~earlyBeat

\* A tool call had a second heartbeat, and events were processed since its last one
\* without another.
C25_Witness ==
    \E c \in ToolCalls :
        /\ beats[c] = 2
        /\ c \in DOMAIN runningToolWatch
        /\ now > lastBeat[c]
        /\ now - lastBeat[c] < toolProgressHeartbeatMs

\* C30: between two resets no assistant message id is broadcast as message_complete
\* a second time.
C30_CompleteOncePerMessage == recompleted = {}

\* C23: the row of a running session names its sandbox, and the row of a paused
\* session names none.
C23_SandboxIdIffLive ==
    /\ row.status = "running" => row.sandboxId # NoId
    /\ row.status = "paused" => row.sandboxId = NoId

\* C24: for the sandbox id a session holds, checkSandboxes returns it exactly when
\* its container is running.
C24_ChecksExactlyAlive ==
    \A s \in Sessions :
        current[s] # NoContainerId
            => checkSandboxes({current[s]}) = IF Running(current[s]) THEN {current[s]}
                                              ELSE {}

\* C26: a routed git command (commit, push, create-PR) produces each of its side
\* effects at most once over all its runs, retries included.
C26_EffectsOncePerCommand ==
    \A c \in GitCommands :
        /\ effects[c].commits <= 1
        /\ effects[c].pushes <= 1
        /\ effects[c].prs <= 1

\* The environment variables of the configured identity.
CarriesIdentity(env) ==
    /\ {"GIT_AUTHOR_NAME", "GIT_AUTHOR_EMAIL", "GIT_COMMITTER_NAME", "GIT_COMMITTER_EMAIL"}
           \subseteq DOMAIN env
    /\ env.GIT_AUTHOR_NAME = gitIdentity.name
    /\ env.GIT_AUTHOR_EMAIL = gitIdentity.email
    /\ env.GIT_COMMITTER_NAME = gitIdentity.name
    /\ env.GIT_COMMITTER_EMAIL = gitIdentity.email

\* C29: with a git identity configured, every command commit() runs carries the
\* author and committer name and email of that identity.
C29_CommitCarriesIdentity ==
    ran = "commit" /\ gitIdentity # NoGitIdentity
        => \A i \in DOMAIN execLog : CarriesIdentity(execLog[i].env)

\* A commit with an identity ran its three commands and succeeded.
C29_Witness ==
    /\ ran = "commit"
    /\ gitIdentity # NoGitIdentity
    /\ gitResult = "SUCCESS"
    /\ Len(execLog) = 3

\* C27: resolveRun updates the run only when the run is of the caller's
\* organization, is needs_human, failed or timed_out, and the outcome is succeeded
\* or failed; another outcome throws, a missing run or a run of another
\* organization gives null, a running or queued run throws
\* RunNotResolvableError, each without an update.
C27_ResolveRunGuards ==
    resolved.called =>
        LET run == resolved.before
            valid == resolved.outcome \in {"succeeded", "failed"}
            mine == run # NoRun /\ run.organizationId = resolved.orgId
        IN  /\ resolved.updated
                => valid /\ mine /\ run.status \in {"needs_human", "failed", "timed_out"}
            /\ ~valid => resolved.result = "Invalid resolution outcome"
            /\ valid /\ ~mine => resolved.result = "null"
            /\ valid /\ mine /\ run.status \in {"running", "queued"}
                => resolved.result = "RunNotResolvableError"
            /\ resolved.result # "run"
                => ~resolved.updated /\ resolved.untouched

\* A timed-out run of the caller's organization was resolved to failed.
C27_Witness ==
    /\ resolved.called
    /\ resolved.updated
    /\ resolved.before.status = "timed_out"
    /\ resolved.outcome = "failed"
    /\ findById(resolved.runId).status = "failed"

\* Status s comes right before status t in the trail of invocation id.
Then(id, s, t) ==
    \E i \in DOMAIN trail[id] :
        i < Len(trail[id]) /\ trail[id][i] = s /\ trail[id][i + 1] = t

\* C28: the adapter of an invocation runs only after `approved` then
\* `executing`; a read action is approved at invoke, a write action by an admin
\* (or owner) while it is pending and before its deadline, a danger action is
\* denied at invoke, and a denied or expired invocation is never executed.
C28_ExecutedOnlyWhenApproved ==
    \A id \in DOMAIN invocations :
        LET inv == invocations[id]
            was(s) == \E i \in DOMAIN trail[id] : trail[id][i] = s
        IN  /\ executed[id] > 0
                => /\ Then(id, "approved", "executing")
                   /\ executed[id] = 1
                   /\ inv.risk # "danger"
                   /\ inv.risk = "read" => trail[id][1] = "approved"
                   /\ inv.risk = "write"
                        => /\ Then(id, "pending", "approved")
                           /\ inv.approvedBy.role \in {"admin", "owner"}
                           /\ inv.approvedBy.at < inv.expiresAt
            /\ inv.risk = "danger" => trail[id] = <<"denied">>
            /\ was("denied") \/ was("expired") => executed[id] = 0
            /\ was("executing") <=> executed[id] > 0

\* A write action was approved in time and its adapter ran, while another had
\* expired.
C28_Witness ==
    \E id \in DOMAIN invocations : \E other \in DOMAIN invocations :
        /\ invocations[id].risk = "write"
        /\ executed[id] = 1
        /\ invocations[id].approvedBy.at > 0
        /\ invocations[other].status = "expired"

\* The fires of the expiry of one sandbox of a session.
FiresOf(s, sandbox) ==
    {i \in DOMAIN fired : fired[i].sessionId = s /\ fired[i].sandbox = sandbox}

C21_OnDisconnectOnce ==
    /\ onDisconnectCalls <= 1
    /\ stoppedBy \in Triggers => onDisconnectCalls = 1 /\ connection = "disconnected"
    /\ stoppedBy = "disconnect" => onDisconnectCalls = 0 /\ connection = "disconnected"
    /\ stoppedBy = "none" => onDisconnectCalls = 0 /\ delivered = {}
    /\ connection = "connected" => connects > 0 /\ stoppedBy = "none"

\* All three triggers reached a client of the second connection.
C21_Witness ==
    /\ delivered = Triggers
    /\ connects = 2
    /\ onDisconnectCalls = 1

\* Some broadcast of the last step is a token or a text_part_complete.
TextBroadcast ==
    \E i \in DOMAIN emitted : emitted[i].type \in {"token", "text_part_complete"}

\* C31: a text part of the current assistant message is broadcast as token or
\* text_part_complete, whichever event created the message: the assistant message
\* is never taken for the echoed user message.
C31_AssistantTextBroadcast ==
    (IsTextPart(lastEvent) /\ lastEvent.session = getOpenCodeSessionId
       /\ lastEvent.msg \in AssistantIds
       /\ lastEvent.msg = currentAssistantMessageId) => TextBroadcast

(***************************************************************************)
(* One prompt's events, every one of them handed to process() in turn.     *)
(* The hub's SSE loop processes each event it receives, hence the weak     *)
(* fairness of ProcessWait; which events OpenCode sends is not constrained.*)
(***************************************************************************)
WaitEvents == TurnEvents \cup {ServerHeartbeat}

\* An idle event was deferred because a tool was running ("earlyIdle"), and the
\* running tools have completed since ("toolDone"), up to the next message_complete.
WaitAfter(e, r) ==
    LET running == { c \in DOMAIN r.tools : r.tools[c].status = "running" }
    IN  IF Count(r.out, "message_complete") > 0 THEN NoScen
        ELSE IF IsIdleEvent(e) /\ r.cur # NULL /\ running # {}
        THEN [NoScen EXCEPT !.phase = "earlyIdle"]
        ELSE IF scen.phase = "earlyIdle" /\ running = {}
        THEN [NoScen EXCEPT !.phase = "toolDone", !.part = e.part]
        ELSE scen

ProcessWait ==
    \E e \in WaitEvents :
        LET r == process(Fields, e, now)
        IN  /\ Store(r) /\ ObserveStep(e, r)
            /\ scen' = WaitAfter(e, r)
            /\ UNCHANGED <<rtVars, envVars, now, slotVars, doneVars, beatVars, staleVars,
                           announced, reannounced, ended, reended>>

SpecWait == Init /\ [][ProcessWait]_vars /\ WF_vars(ProcessWait)

\* C32: once an idle event was deferred for a running tool and the tool has
\* completed, message_complete is eventually broadcast.
C32_DeferredIdleCompletes ==
    (scen.phase = "toolDone") ~> (Count(emitted, "message_complete") > 0)

(***************************************************************************)
(* Prompt cancel: stale holds the assistant messages that were current     *)
(* when clearCurrentAssistantMessageId() was called since the last reset.  *)
(***************************************************************************)
ProcessCancel ==
    \E e \in ErrorFocusEvents :
        LET r == process(Fields, e, now)
        IN  /\ Store(r) /\ ObserveStep(e, r)
            /\ UNCHANGED <<rtVars, envVars, now, slotVars, doneVars, beatVars, turnVars,
                           staleVars>>

ResetCancel ==
    LET r == resetForNewPrompt(Fields)
    IN  /\ Store(r) /\ ObserveStep(Ev("resetForNewPrompt"), r)
        /\ stale' = {}
        /\ UNCHANGED <<rtVars, envVars, now, slotVars, doneVars, beatVars, turnVars,
                       carried, fresh, firstSeen, userTextSeen, userLeak>>

ClearCancel ==
    LET r == clearCurrentAssistantMessageId(Fields)
    IN  /\ Store(r) /\ ObserveStep(Ev("clearCurrentAssistantMessageId"), r)
        /\ stale' = stale \cup ({currentAssistantMessageId} \ {NULL})
        /\ UNCHANGED <<rtVars, envVars, now, slotVars, doneVars, beatVars, turnVars,
                       carried, fresh, firstSeen, userTextSeen, userLeak>>

NextCancel == ProcessCancel \/ ResetCancel \/ ClearCancel

SpecCancel == Init /\ [][NextCancel]_vars

CancelSilenced == {"message", "tool_start", "tool_end", "error", "message_complete"}

\* C37: an event of a message that was cancelled by clearCurrentAssistantMessageId()
\* broadcasts no message, tool_start, tool_end, error or message_complete.
C37_CancelledMessageSilent ==
    Handled(lastEvent) \in stale
        => \A i \in DOMAIN emitted : emitted[i].type \notin CancelSilenced

\* C33: ensureSandbox for a session whose sandbox was paused, called with a snapshot
\* id of that session on a host that answers every step, returns a live sandbox.
C33_ResumeAfterPause ==
    (/\ Called
     /\ last.paused
     /\ last.snapshot # NoImage
     /\ last.snapshot.session = last.session
     /\ last.healthy)
        => /\ last.outcome = "returned"
           /\ last.fresh \/ last.recovered

\* C34: a sandbox created from a snapshot id has in /workspace what the snapshot's
\* source sandbox had there when the snapshot was taken.
C34_WorkspaceOfSnapshot ==
    (Called /\ last.fresh /\ last.snapshot # NoImage)
        => last.workspace = last.snapshot.workspaceAt

\* C35: a createSandbox that threw has left no container of its own on the host.
C35_NothingLeftBehind == (Called /\ last.outcome = "threw") => ~last.left

RowsOf(key) == {r \in sideEffects : r.organizationId = key[1] /\ r.effectId = key[2]}
ReturnedFor(key) == {c \in Callers : fxCalls[c].pc = "returned" /\ fxCalls[c].key = key}

Did(step) == \E i \in DOMAIN attempt.steps : attempt.steps[i] = step
LastStep == attempt.steps[Len(attempt.steps)]

\* C39: processEvent marks the event posted as its last step, after the denial and
\* enforcement logic; when Autumn denied and the enforcement failed to pause a
\* session, the event is not posted: the failure is recorded with the next retry
\* count.
C39_PostedAfterEnforcement ==
    attempt.called
        => /\ Did("markEventPosted") /\ attempt.answer.postOk
                => /\ LastStep = "markEventPosted"
                   /\ attempt.after.status = "posted"
                   /\ attempt.answer.deduct = "denied"
                        => Did("enforceCreditsExhausted") /\ attempt.answer.failed = 0
           /\ attempt.after.status = "posted" => Did("markEventPosted")
           /\ Did("enforceCreditsExhausted") /\ attempt.answer.failed > 0
                => /\ ~Did("markEventPosted")
                   /\ attempt.after.status # "posted"
                   /\ LastStep = "updateEventRetry"
                   /\ attempt.after.retryCount = attempt.before.retryCount + 1
                   /\ attempt.after.status =
                        IF attempt.after.retryCount >= maxRetries THEN "failed"
                        ELSE "pending"

\* Autumn denied, the top-up failed and the enforcement failed to pause a session:
\* the event stays pending with one more retry counted.
C39_Witness ==
    /\ attempt.called
    /\ attempt.answer.deduct = "denied"
    /\ Did("enforceCreditsExhausted")
    /\ attempt.answer.failed > 0
    /\ attempt.after.status = "pending"
    /\ attempt.after.retryCount = attempt.before.retryCount + 1

\* C40: every processEvent ends with the event posted or with its retry count
\* advanced, so that an event is posted or failed for good after at most
\* maxRetries attempts.
C40_EveryAttemptAdvances ==
    attempt.called
        => \/ attempt.after.status = "posted"
           \/ attempt.after.retryCount = attempt.before.retryCount + 1

=============================================================================
